---- MODULE Spec2Model ----
(***************************************************************************)
(* peerscout: acquisition of live peers from the directory service         *)
(* (Data.fetch_live_peers), the filter pipeline (Filter.filter_peers and   *)
(* its three stages) and the endpoint parser (PeerEndpoint), as driven by  *)
(* main().                                                                 *)
(*                                                                         *)
(* A string is a sequence of one-character strings, so that split, int and *)
(* str are computed as Python computes them.  A character outside ASCII is *)
(* written as the name of its code point, "U+FF18" for the fullwidth 8.    *)
(***************************************************************************)
EXTENDS Integers, Sequences, FiniteSets, TLC

\* ------------------------------------------------------------------------
\* Bounds of the model
\* ------------------------------------------------------------------------
\* longest candidate list handed to filter_peers under SpecFilter
MaxPeers == 2
\* largest max_attempts drawn for a run of main()
MaxAttemptsBound == 2
\* largest desired_count drawn
MaxDesired == 2
\* longest string drawn letter by letter for the endpoint parser
MaxStrLen == 5

\* ------------------------------------------------------------------------
\* Python string primitives
\* ------------------------------------------------------------------------
Digits == <<"0", "1", "2", "3", "4", "5", "6", "7", "8", "9">>

\* the decimal digits outside ASCII that int() takes (the characters of
\* Unicode category Nd): one row per script, from its digit zero to its
\* digit nine
NonAsciiDigits ==
    <<
      <<"U+0660", "U+0661", "U+0662", "U+0663", "U+0664",
        "U+0665", "U+0666", "U+0667", "U+0668", "U+0669">>,
      <<"U+06F0", "U+06F1", "U+06F2", "U+06F3", "U+06F4",
        "U+06F5", "U+06F6", "U+06F7", "U+06F8", "U+06F9">>,
      <<"U+07C0", "U+07C1", "U+07C2", "U+07C3", "U+07C4",
        "U+07C5", "U+07C6", "U+07C7", "U+07C8", "U+07C9">>,
      <<"U+0966", "U+0967", "U+0968", "U+0969", "U+096A",
        "U+096B", "U+096C", "U+096D", "U+096E", "U+096F">>,
      <<"U+09E6", "U+09E7", "U+09E8", "U+09E9", "U+09EA",
        "U+09EB", "U+09EC", "U+09ED", "U+09EE", "U+09EF">>,
      <<"U+0A66", "U+0A67", "U+0A68", "U+0A69", "U+0A6A",
        "U+0A6B", "U+0A6C", "U+0A6D", "U+0A6E", "U+0A6F">>,
      <<"U+0AE6", "U+0AE7", "U+0AE8", "U+0AE9", "U+0AEA",
        "U+0AEB", "U+0AEC", "U+0AED", "U+0AEE", "U+0AEF">>,
      <<"U+0B66", "U+0B67", "U+0B68", "U+0B69", "U+0B6A",
        "U+0B6B", "U+0B6C", "U+0B6D", "U+0B6E", "U+0B6F">>,
      <<"U+0BE6", "U+0BE7", "U+0BE8", "U+0BE9", "U+0BEA",
        "U+0BEB", "U+0BEC", "U+0BED", "U+0BEE", "U+0BEF">>,
      <<"U+0C66", "U+0C67", "U+0C68", "U+0C69", "U+0C6A",
        "U+0C6B", "U+0C6C", "U+0C6D", "U+0C6E", "U+0C6F">>,
      <<"U+0CE6", "U+0CE7", "U+0CE8", "U+0CE9", "U+0CEA",
        "U+0CEB", "U+0CEC", "U+0CED", "U+0CEE", "U+0CEF">>,
      <<"U+0D66", "U+0D67", "U+0D68", "U+0D69", "U+0D6A",
        "U+0D6B", "U+0D6C", "U+0D6D", "U+0D6E", "U+0D6F">>,
      <<"U+0DE6", "U+0DE7", "U+0DE8", "U+0DE9", "U+0DEA",
        "U+0DEB", "U+0DEC", "U+0DED", "U+0DEE", "U+0DEF">>,
      <<"U+0E50", "U+0E51", "U+0E52", "U+0E53", "U+0E54",
        "U+0E55", "U+0E56", "U+0E57", "U+0E58", "U+0E59">>,
      <<"U+0ED0", "U+0ED1", "U+0ED2", "U+0ED3", "U+0ED4",
        "U+0ED5", "U+0ED6", "U+0ED7", "U+0ED8", "U+0ED9">>,
      <<"U+0F20", "U+0F21", "U+0F22", "U+0F23", "U+0F24",
        "U+0F25", "U+0F26", "U+0F27", "U+0F28", "U+0F29">>,
      <<"U+1040", "U+1041", "U+1042", "U+1043", "U+1044",
        "U+1045", "U+1046", "U+1047", "U+1048", "U+1049">>,
      <<"U+1090", "U+1091", "U+1092", "U+1093", "U+1094",
        "U+1095", "U+1096", "U+1097", "U+1098", "U+1099">>,
      <<"U+17E0", "U+17E1", "U+17E2", "U+17E3", "U+17E4",
        "U+17E5", "U+17E6", "U+17E7", "U+17E8", "U+17E9">>,
      <<"U+1810", "U+1811", "U+1812", "U+1813", "U+1814",
        "U+1815", "U+1816", "U+1817", "U+1818", "U+1819">>,
      <<"U+1946", "U+1947", "U+1948", "U+1949", "U+194A",
        "U+194B", "U+194C", "U+194D", "U+194E", "U+194F">>,
      <<"U+19D0", "U+19D1", "U+19D2", "U+19D3", "U+19D4",
        "U+19D5", "U+19D6", "U+19D7", "U+19D8", "U+19D9">>,
      <<"U+1A80", "U+1A81", "U+1A82", "U+1A83", "U+1A84",
        "U+1A85", "U+1A86", "U+1A87", "U+1A88", "U+1A89">>,
      <<"U+1A90", "U+1A91", "U+1A92", "U+1A93", "U+1A94",
        "U+1A95", "U+1A96", "U+1A97", "U+1A98", "U+1A99">>,
      <<"U+1B50", "U+1B51", "U+1B52", "U+1B53", "U+1B54",
        "U+1B55", "U+1B56", "U+1B57", "U+1B58", "U+1B59">>,
      <<"U+1BB0", "U+1BB1", "U+1BB2", "U+1BB3", "U+1BB4",
        "U+1BB5", "U+1BB6", "U+1BB7", "U+1BB8", "U+1BB9">>,
      <<"U+1C40", "U+1C41", "U+1C42", "U+1C43", "U+1C44",
        "U+1C45", "U+1C46", "U+1C47", "U+1C48", "U+1C49">>,
      <<"U+1C50", "U+1C51", "U+1C52", "U+1C53", "U+1C54",
        "U+1C55", "U+1C56", "U+1C57", "U+1C58", "U+1C59">>,
      <<"U+A620", "U+A621", "U+A622", "U+A623", "U+A624",
        "U+A625", "U+A626", "U+A627", "U+A628", "U+A629">>,
      <<"U+A8D0", "U+A8D1", "U+A8D2", "U+A8D3", "U+A8D4",
        "U+A8D5", "U+A8D6", "U+A8D7", "U+A8D8", "U+A8D9">>,
      <<"U+A900", "U+A901", "U+A902", "U+A903", "U+A904",
        "U+A905", "U+A906", "U+A907", "U+A908", "U+A909">>,
      <<"U+A9D0", "U+A9D1", "U+A9D2", "U+A9D3", "U+A9D4",
        "U+A9D5", "U+A9D6", "U+A9D7", "U+A9D8", "U+A9D9">>,
      <<"U+A9F0", "U+A9F1", "U+A9F2", "U+A9F3", "U+A9F4",
        "U+A9F5", "U+A9F6", "U+A9F7", "U+A9F8", "U+A9F9">>,
      <<"U+AA50", "U+AA51", "U+AA52", "U+AA53", "U+AA54",
        "U+AA55", "U+AA56", "U+AA57", "U+AA58", "U+AA59">>,
      <<"U+ABF0", "U+ABF1", "U+ABF2", "U+ABF3", "U+ABF4",
        "U+ABF5", "U+ABF6", "U+ABF7", "U+ABF8", "U+ABF9">>,
      <<"U+FF10", "U+FF11", "U+FF12", "U+FF13", "U+FF14",
        "U+FF15", "U+FF16", "U+FF17", "U+FF18", "U+FF19">>,
      <<"U+104A0", "U+104A1", "U+104A2", "U+104A3", "U+104A4",
        "U+104A5", "U+104A6", "U+104A7", "U+104A8", "U+104A9">>,
      <<"U+10D30", "U+10D31", "U+10D32", "U+10D33", "U+10D34",
        "U+10D35", "U+10D36", "U+10D37", "U+10D38", "U+10D39">>,
      <<"U+11066", "U+11067", "U+11068", "U+11069", "U+1106A",
        "U+1106B", "U+1106C", "U+1106D", "U+1106E", "U+1106F">>,
      <<"U+110F0", "U+110F1", "U+110F2", "U+110F3", "U+110F4",
        "U+110F5", "U+110F6", "U+110F7", "U+110F8", "U+110F9">>,
      <<"U+11136", "U+11137", "U+11138", "U+11139", "U+1113A",
        "U+1113B", "U+1113C", "U+1113D", "U+1113E", "U+1113F">>,
      <<"U+111D0", "U+111D1", "U+111D2", "U+111D3", "U+111D4",
        "U+111D5", "U+111D6", "U+111D7", "U+111D8", "U+111D9">>,
      <<"U+112F0", "U+112F1", "U+112F2", "U+112F3", "U+112F4",
        "U+112F5", "U+112F6", "U+112F7", "U+112F8", "U+112F9">>,
      <<"U+11450", "U+11451", "U+11452", "U+11453", "U+11454",
        "U+11455", "U+11456", "U+11457", "U+11458", "U+11459">>,
      <<"U+114D0", "U+114D1", "U+114D2", "U+114D3", "U+114D4",
        "U+114D5", "U+114D6", "U+114D7", "U+114D8", "U+114D9">>,
      <<"U+11650", "U+11651", "U+11652", "U+11653", "U+11654",
        "U+11655", "U+11656", "U+11657", "U+11658", "U+11659">>,
      <<"U+116C0", "U+116C1", "U+116C2", "U+116C3", "U+116C4",
        "U+116C5", "U+116C6", "U+116C7", "U+116C8", "U+116C9">>,
      <<"U+11730", "U+11731", "U+11732", "U+11733", "U+11734",
        "U+11735", "U+11736", "U+11737", "U+11738", "U+11739">>,
      <<"U+118E0", "U+118E1", "U+118E2", "U+118E3", "U+118E4",
        "U+118E5", "U+118E6", "U+118E7", "U+118E8", "U+118E9">>,
      <<"U+11950", "U+11951", "U+11952", "U+11953", "U+11954",
        "U+11955", "U+11956", "U+11957", "U+11958", "U+11959">>,
      <<"U+11C50", "U+11C51", "U+11C52", "U+11C53", "U+11C54",
        "U+11C55", "U+11C56", "U+11C57", "U+11C58", "U+11C59">>,
      <<"U+11D50", "U+11D51", "U+11D52", "U+11D53", "U+11D54",
        "U+11D55", "U+11D56", "U+11D57", "U+11D58", "U+11D59">>,
      <<"U+11DA0", "U+11DA1", "U+11DA2", "U+11DA3", "U+11DA4",
        "U+11DA5", "U+11DA6", "U+11DA7", "U+11DA8", "U+11DA9">>,
      <<"U+16A60", "U+16A61", "U+16A62", "U+16A63", "U+16A64",
        "U+16A65", "U+16A66", "U+16A67", "U+16A68", "U+16A69">>,
      <<"U+16AC0", "U+16AC1", "U+16AC2", "U+16AC3", "U+16AC4",
        "U+16AC5", "U+16AC6", "U+16AC7", "U+16AC8", "U+16AC9">>,
      <<"U+16B50", "U+16B51", "U+16B52", "U+16B53", "U+16B54",
        "U+16B55", "U+16B56", "U+16B57", "U+16B58", "U+16B59">>,
      <<"U+1D7CE", "U+1D7CF", "U+1D7D0", "U+1D7D1", "U+1D7D2",
        "U+1D7D3", "U+1D7D4", "U+1D7D5", "U+1D7D6", "U+1D7D7">>,
      <<"U+1D7D8", "U+1D7D9", "U+1D7DA", "U+1D7DB", "U+1D7DC",
        "U+1D7DD", "U+1D7DE", "U+1D7DF", "U+1D7E0", "U+1D7E1">>,
      <<"U+1D7E2", "U+1D7E3", "U+1D7E4", "U+1D7E5", "U+1D7E6",
        "U+1D7E7", "U+1D7E8", "U+1D7E9", "U+1D7EA", "U+1D7EB">>,
      <<"U+1D7EC", "U+1D7ED", "U+1D7EE", "U+1D7EF", "U+1D7F0",
        "U+1D7F1", "U+1D7F2", "U+1D7F3", "U+1D7F4", "U+1D7F5">>,
      <<"U+1D7F6", "U+1D7F7", "U+1D7F8", "U+1D7F9", "U+1D7FA",
        "U+1D7FB", "U+1D7FC", "U+1D7FD", "U+1D7FE", "U+1D7FF">>,
      <<"U+1E140", "U+1E141", "U+1E142", "U+1E143", "U+1E144",
        "U+1E145", "U+1E146", "U+1E147", "U+1E148", "U+1E149">>,
      <<"U+1E2F0", "U+1E2F1", "U+1E2F2", "U+1E2F3", "U+1E2F4",
        "U+1E2F5", "U+1E2F6", "U+1E2F7", "U+1E2F8", "U+1E2F9">>,
      <<"U+1E950", "U+1E951", "U+1E952", "U+1E953", "U+1E954",
        "U+1E955", "U+1E956", "U+1E957", "U+1E958", "U+1E959">>,
      <<"U+1FBF0", "U+1FBF1", "U+1FBF2", "U+1FBF3", "U+1FBF4",
        "U+1FBF5", "U+1FBF6", "U+1FBF7", "U+1FBF8", "U+1FBF9">>
    >>

NonAsciiDigitSet ==
    {NonAsciiDigits[r][i] : r \in 1..Len(NonAsciiDigits), i \in 1..10}

IsAsciiDigit(c) == \E i \in 1..10 : Digits[i] = c

IsDigit(c) == IsAsciiDigit(c) \/ c \in NonAsciiDigitSet

DigitVal(c) ==
    IF IsAsciiDigit(c) THEN (CHOOSE i \in 1..10 : Digits[i] = c) - 1
    ELSE (CHOOSE i \in 1..10 :
             \E r \in 1..Len(NonAsciiDigits) : NonAsciiDigits[r][i] = c) - 1

\* the whitespace int() strips from both ends of a literal
Whitespace ==
    {"\t", "\n", "U+000B", "U+000C", "\r", " ", "U+0085", "U+00A0", "U+1680",
     "U+2000", "U+2001", "U+2002", "U+2003", "U+2004", "U+2005", "U+2006", "U+2007",
     "U+2008", "U+2009", "U+200A", "U+2028", "U+2029", "U+202F", "U+205F", "U+3000"}

\* sys.get_int_max_str_digits(): int() rejects a literal of more digits
MaxStrDigits == 4300

RECURSIVE lstrip(_)
lstrip(s) == IF Len(s) > 0 /\ s[1] \in Whitespace THEN lstrip(Tail(s)) ELSE s

RECURSIVE rstrip(_)
rstrip(s) == IF Len(s) > 0 /\ s[Len(s)] \in Whitespace
             THEN rstrip(SubSeq(s, 1, Len(s) - 1)) ELSE s

strip(s) == rstrip(lstrip(s))

\* positions of sep in s
SepAt(s, sep) == {i \in 1..Len(s) : s[i] = sep}

Min(S) == CHOOSE x \in S : \A y \in S : x <= y

\* str.split(sep) for a one-character separator
RECURSIVE split(_, _)
split(s, sep) ==
    IF SepAt(s, sep) = {} THEN <<s>>
    ELSE LET i == Min(SepAt(s, sep))
         IN  <<SubSeq(s, 1, i - 1)>> \o split(SubSeq(s, i + 1, Len(s)), sep)

\* the digits of a literal, after an optional sign
Unsigned(s) == IF Len(s) > 0 /\ s[1] \in {"-", "+"} THEN Tail(s) ELSE s

\* the digits of a literal without the underscores that group them
WithoutUnderscores(s) == SelectSeq(s, LAMBDA ch : ch # "_")

\* int(s) succeeds: between surrounding whitespace, an optional sign
\* followed by one or more decimal digits, with single underscores between
\* digits, and no more than MaxStrDigits digits
IsIntLiteral(s) ==
    LET u == Unsigned(strip(s))
    IN  /\ Len(u) > 0
        /\ \A i \in 1..Len(u) :
              \/ IsDigit(u[i])
              \/ /\ u[i] = "_"
                 /\ i > 1 /\ i < Len(u)
                 /\ IsDigit(u[i - 1]) /\ IsDigit(u[i + 1])
        /\ Len(WithoutUnderscores(u)) <= MaxStrDigits

RECURSIVE DigitsVal(_)
DigitsVal(s) ==
    IF Len(s) = 0 THEN 0
    ELSE 10 * DigitsVal(SubSeq(s, 1, Len(s) - 1)) + DigitVal(s[Len(s)])

\* int(s) for a literal
int(s) ==
    LET t == strip(s)
        n == DigitsVal(WithoutUnderscores(Unsigned(t)))
    IN  IF Len(t) > 0 /\ t[1] = "-" THEN 0 - n ELSE n

RECURSIVE NatStr(_)
NatStr(n) == IF n < 10 THEN <<Digits[n + 1]>>
             ELSE NatStr(n \div 10) \o <<Digits[(n % 10) + 1]>>

\* str(n) for an int: no leading zeros, no plus sign
IntStr(n) == IF n < 0 THEN <<"-">> \o NatStr(0 - n) ELSE NatStr(n)

\* ------------------------------------------------------------------------
\* PeerEndpoint
\* ------------------------------------------------------------------------
\* values of a live_peers list that are no str: the 1 and the null of a
\* JSON body, which json() decodes to an int and to None
JsonOne == <<"json 1">>
JsonNull == <<"json null">>
NonStrings == {JsonOne, JsonNull}

IsString(value) == value \notin NonStrings

\* the exception from_string raises, "" when it returns: AttributeError
\* from endpoint.split of a value that is no str, ValueError from an
\* unpacking of the wrong size or from int
from_string_error(endpoint) ==
    IF ~IsString(endpoint) THEN "AttributeError"
    ELSE IF /\ Len(split(endpoint, "@")) = 2
            /\ Len(split(split(endpoint, "@")[2], ":")) = 2
            /\ IsIntLiteral(split(split(endpoint, "@")[2], ":")[2])
         THEN ""
         ELSE "ValueError"

\* from_string returns
CanParse(endpoint) == from_string_error(endpoint) = ""

\* the exception of [PeerEndpoint.from_string(peer) for peer in peers]:
\* that of the first peer from_string raises on, "" when there is none
parse_error(peer_list) ==
    LET bad == {i \in 1..Len(peer_list) : ~CanParse(peer_list[i])}
    IN  IF bad = {} THEN "" ELSE from_string_error(peer_list[Min(bad)])

from_string(endpoint) ==
    LET node_id == split(endpoint, "@")[1]
        address == split(endpoint, "@")[2]
        ip      == split(address, ":")[1]
        port    == split(address, ":")[2]
    IN  [node_id |-> node_id, ip |-> ip, port |-> int(port)]

\* a __str__ that writes the port with at least two digits
str_PaddedPort(peer) ==
    peer.node_id \o <<"@">> \o peer.ip \o <<":">>
        \o (IF peer.port \in 0..9 THEN <<"0">> ELSE <<>>) \o IntStr(peer.port)

\* PeerEndpoint.__str__
str(peer) == peer.node_id \o <<"@">> \o peer.ip \o <<":">> \o IntStr(peer.port)

\* ------------------------------------------------------------------------
\* Program constants
\* ------------------------------------------------------------------------
\* fetch_live_peers: peer_amount
peer_amount == 25
\* parse_args: default of --max_latency
DefaultMaxLatency == 50
\* parse_args: default of --desired_count
DefaultDesiredCount == 5
\* parse_args: default of --max_attempts
DefaultMaxAttempts == 5
\* _test_port_open: the largest port connect_ex accepts
MaxPort == 65535
\* parse_args: default of --target_countries
DefaultTargetCountries == <<"CA", "US">>
\* _filter_invalid_peers: the textual loopback forms
LoopbackForms ==
    { <<"1", "2", "7", ".", "0", ".", "0", ".", "1">>,
      <<"l", "o", "c", "a", "l", "h", "o", "s", "t">>,
      <<":", ":", "1">> }

\* ------------------------------------------------------------------------
\* Python list primitives
\* ------------------------------------------------------------------------
\* a slice that cuts nothing
Slice_NoCut(seq, n) == seq

\* a slice that lets one more element through
Slice_OneMore(seq, n) == SubSeq(seq, 1, IF n + 1 < Len(seq) THEN n + 1 ELSE Len(seq))

\* seq[:n]
Slice(seq, n) ==
    IF n >= 0 THEN SubSeq(seq, 1, IF n < Len(seq) THEN n ELSE Len(seq))
    ELSE SubSeq(seq, 1, IF Len(seq) + n > 0 THEN Len(seq) + n ELSE 0)

Range(seq) == {seq[i] : i \in 1..Len(seq)}

\* an insertion in front of the pairs of equal latency: an unstable sort
RECURSIVE InsertByLatency_Unstable(_, _)
InsertByLatency_Unstable(sorted, pair) ==
    IF Len(sorted) = 0 THEN <<pair>>
    ELSE IF sorted[Len(sorted)][2] < pair[2] THEN Append(sorted, pair)
    ELSE Append(InsertByLatency_Unstable(SubSeq(sorted, 1, Len(sorted) - 1), pair),
                sorted[Len(sorted)])

\* insertion of one (peer, latency) pair behind every pair whose latency is
\* not greater: list.sort(key=itemgetter(1)) is stable
RECURSIVE InsertByLatency(_, _)
InsertByLatency(sorted, pair) ==
    IF Len(sorted) = 0 THEN <<pair>>
    ELSE IF sorted[Len(sorted)][2] <= pair[2] THEN Append(sorted, pair)
    ELSE Append(InsertByLatency(SubSeq(sorted, 1, Len(sorted) - 1), pair),
                sorted[Len(sorted)])

RECURSIVE SortByLatency(_)
SortByLatency(pairs) ==
    IF Len(pairs) = 0 THEN <<>>
    ELSE InsertByLatency(SortByLatency(SubSeq(pairs, 1, Len(pairs) - 1)),
                         pairs[Len(pairs)])

\* ------------------------------------------------------------------------
\* Filter stages.  A stage returns [raised, value]: raised is "" when the
\* stage returns value, otherwise the name of the exception that leaves it.
\* ------------------------------------------------------------------------
Returned(v) == [raised |-> "", value |-> v]
Raised(e) == [raised |-> e, value |-> <<>>]

\* a validity stage that removes nothing
filter_invalid_peers_KeepAll(peer_list) == peer_list

\* _filter_invalid_peers
filter_invalid_peers(peer_list) ==
    SelectSeq(peer_list, LAMBDA peer : peer.ip \notin LoopbackForms)

\* a request that carries the address of the first peer only
PeerMapKeys_FirstOnly(peer_list) ==
    IF Len(peer_list) = 0 THEN <<>> ELSE <<peer_list[1].ip>>

\* a map that keeps one key per peer instead of one per address
PeerMapKeys_PerPeer(peer_list) == [k \in 1..Len(peer_list) |-> peer_list[k].ip]

\* peer_map = {peer.ip: peer for peer in peers}: the keys in order of first
\* insertion, and for each key the last peer written under it
PeerMapKeys(peer_list) ==
    LET firsts == SelectSeq([i \in 1..Len(peer_list) |-> i],
                            LAMBDA i : \A j \in 1..(i - 1) :
                                          peer_list[j].ip # peer_list[i].ip)
    IN  [k \in 1..Len(firsts) |-> peer_list[firsts[k]].ip]

PeerMapGet(peer_list, ip) ==
    LET last == CHOOSE i \in 1..Len(peer_list) :
                    /\ peer_list[i].ip = ip
                    /\ \A j \in (i + 1)..Len(peer_list) : peer_list[j].ip # ip
    IN  peer_list[last]

\* a stage that asks the resolver and keeps every peer all the same
filter_by_country_KeepAll(peer_list, c, e) ==
    IF e.geo = "APIError" THEN Returned(<<>>)
    ELSE IF e.geo # "ok" THEN Raised(e.geo)
    ELSE Returned(peer_list)

\* a stage that lets through the addresses without a resolved country
filter_by_country_open(peer_list, c, e) ==
    IF e.geo = "APIError" THEN Returned(<<>>)
    ELSE IF e.geo # "ok" THEN Raised(e.geo)
    ELSE LET keys == PeerMapKeys(peer_list)
             hits == SelectSeq(keys, LAMBDA ip :
                                 \/ e.country[ip] \in Range(c.target_countries)
                                 \/ e.country[ip] = "none")
         IN  Returned([k \in 1..Len(hits) |-> PeerMapGet(peer_list, hits[k])])

\* _filter_by_country.  e.geo is the outcome of handler.getBatchDetails:
\* "ok" (a mapping, one entry per requested address, in request order),
\* "APIError" (ipinfo.error.APIError) or "OtherError" (any other exception).
\* e.country[ip] is the country of the details, "none" when they carry no
\* country.
filter_by_country(peer_list, c, e) ==
    IF e.geo = "APIError" THEN Returned(<<>>)
    ELSE IF e.geo # "ok" THEN Raised(e.geo)
    ELSE LET keys == PeerMapKeys(peer_list)
             hits == SelectSeq(keys, LAMBDA ip :
                                 e.country[ip] \in Range(c.target_countries))
         IN  Returned([k \in 1..Len(hits) |-> PeerMapGet(peer_list, hits[k])])

\* what happens to the ICMP echo of ping3.ping: a round trip time in ms, a
\* call that returns None, no reply within the timeout, HostUnknown /
\* another PingError, or an exception that is no PingError (the OSError of
\* a socket the process may not open, PermissionError included)
Rtt(ms) == [kind |-> "rtt", ms |-> ms]
NoSignal == [kind |-> "none", ms |-> 0]
TimedOut == [kind |-> "timeout", ms |-> 0]
PingErr == [kind |-> "error", ms |-> 0]
PingRaise == [kind |-> "raise", ms |-> 0]

\* ping3.EXCEPTIONS = True
EXCEPTIONS == TRUE

\* ping3.ping as main.py configures it: with ping3.EXCEPTIONS set, a
\* timeout is raised as ping3.errors.Timeout, a PingError; without it the
\* call returns None
ping3_ping(outcome) ==
    IF outcome.kind = "timeout"
    THEN (IF EXCEPTIONS THEN PingErr ELSE NoSignal)
    ELSE outcome

\* _test_port_open: connect_ex raises OverflowError for a port outside
\* 0..65535; an OSError counts as closed
PortInRange(peer) == peer.port >= 0 /\ peer.port <= MaxPort

test_port_open(peer, e) == e.tcp[peer.ip]

\* a probe that drops a round trip time equal to max_latency
ProbePeer_Strict(peer, c, e) ==
    LET latency == ping3_ping(e.ping[peer.ip])
    IN  IF latency.kind = "raise" THEN [act |-> "raise", ms |-> 0, why |-> "OSError"]
        ELSE IF latency.kind = "error" THEN [act |-> "drop", ms |-> 0, why |-> "error"]
        ELSE IF latency.kind = "none" THEN
            IF ~PortInRange(peer) THEN [act |-> "raise", ms |-> 0, why |-> "OverflowError"]
            ELSE IF test_port_open(peer, e)
                 THEN [act |-> "keep", ms |-> c.max_latency, why |-> "tcp"]
                 ELSE [act |-> "drop", ms |-> 0, why |-> "closed"]
        ELSE IF latency.ms < c.max_latency
             THEN [act |-> "keep", ms |-> latency.ms, why |-> "icmp"]
             ELSE [act |-> "drop", ms |-> 0, why |-> "high"]

\* one iteration of the loop of _filter_by_latency over peer:
\* "keep" with the recorded latency, "drop", or "raise" with the exception
\* the except clause (HostUnknown, PingError) does not catch
ProbePeer(peer, c, e) ==
    LET latency == ping3_ping(e.ping[peer.ip])
    IN  IF latency.kind = "raise" THEN [act |-> "raise", ms |-> 0, why |-> "OSError"]
        ELSE IF latency.kind = "error" THEN [act |-> "drop", ms |-> 0, why |-> "error"]
        ELSE IF latency.kind = "none" THEN
            IF ~PortInRange(peer) THEN [act |-> "raise", ms |-> 0, why |-> "OverflowError"]
            ELSE IF test_port_open(peer, e)
                 THEN [act |-> "keep", ms |-> c.max_latency, why |-> "tcp"]
                 ELSE [act |-> "drop", ms |-> 0, why |-> "closed"]
        ELSE IF latency.ms <= c.max_latency
             THEN [act |-> "keep", ms |-> latency.ms, why |-> "icmp"]
             ELSE [act |-> "drop", ms |-> 0, why |-> "high"]

\* the peers the loop of _filter_by_latency reaches: all of them, or those
\* up to the one whose probe raises
Reached(peer_list, c, e) ==
    LET raises == {i \in 1..Len(peer_list) : ProbePeer(peer_list[i], c, e).act = "raise"}
    IN  SubSeq(peer_list, 1, IF raises = {} THEN Len(peer_list) ELSE Min(raises))

\* the addresses of the calls ping3.ping(str(peer.ip), ...)
PingCalls(peer_list, c, e) ==
    [i \in 1..Len(Reached(peer_list, c, e)) |-> Reached(peer_list, c, e)[i].ip]

\* the addresses of the calls self._test_port_open(peer)
PortTests(peer_list, c, e) ==
    LET tested == SelectSeq(Reached(peer_list, c, e),
                            LAMBDA peer : ping3_ping(e.ping[peer.ip]).kind = "none")
    IN  [i \in 1..Len(tested) |-> tested[i].ip]

\* peer_latencies as appended by the loop, before the sort
Measured(peer_list, c, e) ==
    LET kept == SelectSeq(peer_list, LAMBDA peer : ProbePeer(peer, c, e).act = "keep")
    IN  [i \in 1..Len(kept) |-> <<kept[i], ProbePeer(kept[i], c, e).ms>>]

\* the body of _filter_by_latency after peer_latencies = start; value is
\* the sorted peer_latencies, raised the exception of the first probe that
\* raises
latency_stage(start, peer_list, c, e) ==
    LET raises == {i \in 1..Len(peer_list) : ProbePeer(peer_list[i], c, e).act = "raise"}
    IN  IF raises # {}
        THEN Raised(ProbePeer(peer_list[Min(raises)], c, e).why)
        ELSE Returned(SortByLatency(start \o Measured(peer_list, c, e)))

\* _filter_by_latency, which starts from peer_latencies = []
filter_by_latency(peer_list, c, e) == latency_stage(<<>>, peer_list, c, e)

\* Filter.filter_peers as one function of the candidate list, the
\* configuration and the outcomes of the resolver and the probes
filter_peers(peer_list, c, e) ==
    IF parse_error(peer_list) # "" THEN Raised(parse_error(peer_list))
    ELSE LET endpoints == [i \in 1..Len(peer_list) |-> from_string(peer_list[i])]
             located   == filter_by_country(filter_invalid_peers(endpoints), c, e)
             measured  == filter_by_latency(located.value, c, e)
         IN  IF located.raised # "" THEN located
             ELSE IF measured.raised # "" THEN measured
             ELSE Returned(Slice([i \in 1..Len(measured.value) |->
                                     str(measured.value[i][1])],
                                 c.desired_count))

\* ------------------------------------------------------------------------
\* Candidate strings
\* ------------------------------------------------------------------------
IpA == <<"1", ".", "1", ".", "1", ".", "1">>
IpB == <<"2", ".", "2", ".", "2", ".", "2">>
IpLoop == <<"1", "2", "7", ".", "0", ".", "0", ".", "1">>

\* a@1.1.1.1:1
CandA == <<"a", "@">> \o IpA \o <<":", "1">>
\* b@2.2.2.2:2
CandB == <<"b", "@">> \o IpB \o <<":", "2">>
\* c@1.1.1.1:03, the address of CandA under another identifier and port
CandC == <<"c", "@">> \o IpA \o <<":", "0", "3">>
\* c@1.1.1.1:3, the canonical form of CandC
CandC3 == <<"c", "@">> \o IpA \o <<":", "3">>
\* l@127.0.0.1:1
CandLoop == <<"l", "@">> \o IpLoop \o <<":", "1">>
\* bad, without separators
CandBad == <<"b", "a", "d">>
\* e@2.2.2.2:70000, a port no socket accepts
CandBigPort == <<"e", "@">> \o IpB \o <<":", "7", "0", "0", "0", "0">>
\* i@::1:3, an IPv6 loopback literal
CandV6 == <<"i", "@", ":", ":", "1", ":", "3">>

FilterCandidates ==
    {CandA, CandB, CandC, CandLoop, CandBad, CandBigPort, CandV6, JsonNull}

\* the candidates a directory response is made of: n<i>@10.0.0.<i>:26656
GenIp(i) == <<"1", "0", ".", "0", ".", "0", ".">> \o NatStr(i)
Cand(i) == <<"n">> \o NatStr(i) \o <<"@">> \o GenIp(i) \o <<":", "2", "6", "6", "5", "6">>

\* number of generated candidates: more than peer_amount
UniverseSize == peer_amount + 1

\* every value a directory response of the model can carry
Universe ==
    [i \in 1..UniverseSize |-> Cand(i)]
        \o <<CandA, CandB, CandC, CandC3, CandLoop, CandBad, CandBigPort, CandV6,
             JsonOne>>

GenIps == {GenIp(i) : i \in 1..UniverseSize}
AllIps == GenIps \cup {IpA, IpB, IpLoop}

\* ------------------------------------------------------------------------
\* The set of fetch_live_peers (unique_peers = set(), update, len, list) as
\* CPython 3.11 keeps it: a table of 8, 32, 128, ... slots.  A key goes to
\* the slot the low bits of its hash name or, when that slot is taken, to
\* one of the LINEAR_PROBES slots behind it, then to the slot a recurrence
\* over the higher bits of the hash names, and so on; list() reads the
\* table from its first slot to its last.  The hash of a string depends on
\* PYTHONHASHSEED, so the order of the list does too.
\* ------------------------------------------------------------------------
\* the values of PYTHONHASHSEED a run is started with
HashSeeds == {0, 1, 2, 3}

\* hash(key) as an unsigned 64-bit number under each seed of HashSeeds (one
\* row per seed, in ascending order), for the values of Universe in its
\* order, in digits of PERTURB_SHIFT bits, the lowest first; hash(1) is 1
\* under every seed
StrHashes ==
    <<
      <<
        <<10, 3, 3, 7, 9, 22, 6, 9, 0, 6, 21, 26, 4>>,
        <<7, 6, 4, 28, 4, 27, 20, 2, 18, 17, 24, 10, 4>>,
        <<5, 19, 23, 3, 18, 4, 15, 1, 31, 10, 29, 8, 9>>,
        <<29, 21, 7, 23, 24, 30, 3, 2, 18, 12, 30, 15, 5>>,
        <<24, 8, 4, 9, 15, 30, 27, 6, 30, 8, 7, 23, 13>>,
        <<21, 26, 8, 10, 12, 23, 24, 19, 0, 8, 3, 2, 1>>,
        <<3, 4, 27, 18, 1, 11, 6, 14, 23, 27, 16, 5, 15>>,
        <<17, 24, 17, 3, 6, 2, 13, 29, 21, 25, 12, 28, 1>>,
        <<25, 10, 29, 17, 0, 26, 9, 1, 21, 2, 13, 19, 1>>,
        <<13, 9, 23, 13, 14, 10, 15, 16, 9, 2, 13, 25, 5>>,
        <<7, 20, 2, 11, 14, 23, 17, 26, 26, 17, 2, 22, 12>>,
        <<22, 16, 24, 2, 21, 16, 12, 5, 27, 17, 5, 11, 5>>,
        <<11, 13, 25, 22, 19, 7, 22, 29, 7, 13, 8, 18, 11>>,
        <<10, 17, 29, 12, 27, 1, 31, 15, 4, 25, 10, 7, 9>>,
        <<31, 13, 28, 6, 12, 3, 15, 21, 0, 16, 3, 3, 11>>,
        <<15, 15, 23, 3, 23, 5, 12, 12, 12, 20, 5, 17, 7>>,
        <<7, 0, 25, 22, 19, 2, 30, 15, 10, 7, 0, 13, 15>>,
        <<20, 0, 27, 15, 18, 23, 7, 6, 0, 0, 25, 20, 3>>,
        <<17, 20, 11, 2, 15, 16, 1, 3, 1, 13, 28, 16, 2>>,
        <<2, 8, 0, 31, 0, 9, 8, 3, 4, 15, 6, 3, 3>>,
        <<13, 11, 26, 5, 31, 19, 19, 15, 0, 11, 29, 11, 15>>,
        <<3, 26, 6, 10, 20, 9, 9, 7, 27, 16, 6, 2, 9>>,
        <<12, 21, 31, 19, 5, 15, 1, 29, 18, 24, 31, 31, 12>>,
        <<0, 7, 10, 18, 6, 8, 29, 21, 3, 6, 20, 17, 1>>,
        <<13, 14, 17, 14, 27, 12, 10, 21, 29, 5, 14, 1, 12>>,
        <<11, 0, 28, 10, 7, 31, 2, 2, 5, 5, 24, 26, 3>>,
        <<19, 28, 11, 7, 3, 31, 21, 0, 18, 17, 8, 15, 15>>,
        <<13, 4, 24, 24, 6, 20, 6, 4, 14, 10, 15, 26, 4>>,
        <<20, 27, 28, 22, 10, 5, 19, 14, 13, 18, 7, 14, 15>>,
        <<21, 0, 8, 18, 1, 15, 23, 13, 18, 4, 28, 20, 11>>,
        <<15, 1, 3, 19, 30, 8, 19, 3, 18, 25, 15, 5, 1>>,
        <<29, 24, 8, 14, 5, 2, 6, 25, 30, 26, 20, 8, 10>>,
        <<27, 9, 16, 1, 28, 10, 19, 23, 4, 0, 7, 8, 12>>,
        <<21, 18, 21, 23, 5, 20, 14, 6, 0, 3, 0, 17, 2>>,
        <<1, 0, 0, 0, 0, 0, 0, 0, 0, 0, 0, 0, 0>>
      >>,
      <<
        <<29, 31, 21, 4, 10, 16, 15, 8, 13, 28, 22, 19, 8>>,
        <<8, 16, 28, 19, 16, 21, 30, 5, 27, 21, 14, 15, 14>>,
        <<9, 21, 29, 7, 16, 1, 11, 2, 10, 2, 1, 18, 10>>,
        <<12, 25, 5, 24, 29, 12, 14, 10, 14, 14, 12, 7, 15>>,
        <<24, 7, 11, 25, 27, 25, 24, 23, 1, 3, 28, 15, 0>>,
        <<26, 31, 21, 11, 1, 9, 8, 18, 29, 9, 6, 6, 3>>,
        <<10, 12, 27, 5, 13, 25, 10, 25, 31, 20, 14, 17, 5>>,
        <<4, 28, 29, 15, 7, 31, 23, 13, 3, 1, 11, 1, 0>>,
        <<27, 12, 24, 23, 23, 21, 31, 8, 11, 7, 6, 3, 9>>,
        <<27, 23, 31, 22, 9, 14, 21, 14, 11, 2, 25, 7, 10>>,
        <<13, 19, 10, 25, 14, 26, 26, 11, 25, 3, 21, 6, 9>>,
        <<11, 23, 26, 0, 29, 27, 20, 12, 20, 29, 31, 20, 8>>,
        <<23, 10, 13, 31, 1, 8, 26, 19, 28, 25, 10, 1, 2>>,
        <<22, 29, 12, 30, 21, 29, 4, 16, 12, 11, 15, 18, 13>>,
        <<10, 2, 9, 17, 29, 0, 24, 6, 13, 11, 23, 11, 4>>,
        <<12, 29, 27, 25, 24, 12, 6, 26, 2, 13, 17, 19, 13>>,
        <<20, 2, 23, 7, 12, 20, 19, 1, 11, 1, 15, 31, 15>>,
        <<17, 31, 28, 20, 16, 4, 5, 6, 26, 11, 20, 13, 2>>,
        <<3, 11, 24, 24, 13, 7, 30, 0, 5, 22, 22, 14, 2>>,
        <<7, 17, 17, 24, 18, 13, 6, 24, 31, 6, 13, 1, 6>>,
        <<9, 8, 24, 15, 11, 24, 27, 20, 18, 4, 29, 10, 12>>,
        <<7, 15, 22, 8, 14, 25, 21, 22, 29, 17, 3, 20, 1>>,
        <<29, 24, 21, 25, 27, 22, 25, 14, 29, 28, 18, 6, 2>>,
        <<5, 18, 25, 20, 5, 10, 17, 9, 24, 3, 19, 7, 9>>,
        <<29, 6, 26, 29, 9, 2, 18, 19, 3, 28, 2, 12, 7>>,
        <<6, 15, 13, 7, 6, 2, 27, 22, 30, 26, 6, 3, 9>>,
        <<22, 18, 24, 5, 4, 19, 17, 2, 23, 26, 31, 30, 7>>,
        <<26, 23, 1, 11, 13, 14, 3, 13, 21, 31, 24, 25, 13>>,
        <<26, 30, 26, 6, 15, 29, 3, 17, 23, 6, 2, 19, 8>>,
        <<3, 11, 28, 7, 4, 2, 15, 27, 23, 3, 5, 28, 12>>,
        <<19, 16, 26, 8, 30, 15, 22, 25, 22, 24, 26, 27, 6>>,
        <<27, 12, 29, 3, 8, 6, 16, 24, 28, 18, 1, 30, 12>>,
        <<24, 26, 13, 5, 3, 27, 30, 12, 12, 10, 11, 17, 0>>,
        <<5, 10, 30, 3, 23, 8, 10, 27, 10, 18, 16, 18, 4>>,
        <<1, 0, 0, 0, 0, 0, 0, 0, 0, 0, 0, 0, 0>>
      >>,
      <<
        <<2, 20, 5, 0, 13, 16, 1, 4, 26, 15, 13, 1, 8>>,
        <<16, 4, 30, 25, 19, 8, 16, 10, 3, 24, 28, 11, 10>>,
        <<29, 24, 31, 20, 31, 15, 6, 21, 4, 3, 27, 3, 8>>,
        <<27, 6, 19, 30, 27, 5, 19, 9, 1, 12, 13, 10, 2>>,
        <<27, 24, 27, 4, 31, 7, 18, 22, 20, 12, 27, 10, 0>>,
        <<23, 15, 20, 16, 13, 0, 31, 11, 28, 6, 31, 12, 13>>,
        <<5, 6, 23, 31, 26, 16, 8, 29, 28, 23, 20, 22, 10>>,
        <<25, 19, 29, 3, 10, 10, 30, 22, 24, 11, 27, 17, 2>>,
        <<8, 18, 17, 26, 1, 4, 17, 8, 3, 20, 9, 2, 9>>,
        <<9, 5, 13, 25, 8, 19, 6, 21, 29, 11, 31, 13, 7>>,
        <<6, 12, 16, 12, 9, 12, 1, 22, 10, 6, 24, 21, 8>>,
        <<4, 20, 25, 30, 1, 27, 12, 29, 3, 24, 13, 31, 6>>,
        <<0, 29, 28, 14, 15, 7, 12, 16, 23, 2, 12, 17, 15>>,
        <<15, 23, 29, 22, 27, 15, 18, 16, 29, 22, 4, 26, 2>>,
        <<2, 15, 29, 27, 6, 21, 15, 12, 4, 15, 13, 5, 14>>,
        <<18, 9, 10, 12, 27, 4, 2, 8, 8, 28, 5, 17, 5>>,
        <<23, 17, 18, 5, 18, 24, 5, 5, 15, 5, 13, 19, 7>>,
        <<28, 0, 3, 2, 9, 3, 22, 8, 23, 27, 8, 10, 5>>,
        <<20, 1, 19, 21, 30, 8, 9, 18, 6, 11, 31, 15, 13>>,
        <<14, 18, 30, 4, 0, 30, 15, 5, 23, 2, 8, 18, 12>>,
        <<20, 4, 5, 21, 12, 0, 10, 11, 27, 18, 29, 0, 8>>,
        <<21, 17, 26, 14, 5, 11, 7, 13, 1, 29, 7, 27, 9>>,
        <<16, 10, 11, 4, 0, 5, 18, 1, 7, 5, 5, 7, 12>>,
        <<17, 23, 13, 27, 28, 17, 7, 14, 2, 7, 31, 12, 10>>,
        <<26, 11, 30, 9, 15, 13, 26, 4, 17, 15, 17, 25, 4>>,
        <<23, 8, 25, 1, 8, 25, 18, 15, 8, 30, 7, 2, 10>>,
        <<4, 30, 15, 13, 19, 26, 23, 9, 6, 8, 26, 17, 6>>,
        <<20, 28, 31, 14, 24, 31, 6, 0, 16, 13, 18, 29, 12>>,
        <<25, 2, 30, 10, 8, 2, 30, 9, 25, 8, 27, 5, 2>>,
        <<18, 3, 5, 26, 6, 13, 29, 27, 2, 7, 4, 3, 4>>,
        <<10, 14, 7, 20, 8, 27, 19, 21, 8, 0, 3, 16, 9>>,
        <<31, 30, 31, 7, 4, 25, 25, 13, 16, 10, 11, 10, 14>>,
        <<30, 22, 9, 23, 29, 25, 29, 10, 28, 20, 24, 13, 12>>,
        <<2, 31, 23, 14, 2, 8, 5, 12, 15, 16, 6, 20, 7>>,
        <<1, 0, 0, 0, 0, 0, 0, 0, 0, 0, 0, 0, 0>>
      >>,
      <<
        <<10, 22, 5, 12, 31, 19, 1, 20, 13, 2, 2, 14, 11>>,
        <<19, 21, 7, 16, 14, 6, 24, 30, 20, 29, 10, 11, 3>>,
        <<29, 3, 24, 5, 26, 1, 6, 28, 24, 15, 11, 18, 12>>,
        <<28, 23, 25, 0, 9, 24, 20, 1, 1, 2, 14, 16, 1>>,
        <<17, 6, 15, 14, 16, 0, 19, 1, 13, 30, 29, 7, 15>>,
        <<0, 28, 9, 1, 12, 24, 30, 17, 9, 23, 6, 20, 5>>,
        <<2, 3, 24, 9, 1, 4, 25, 12, 15, 1, 21, 31, 13>>,
        <<29, 18, 10, 4, 25, 26, 3, 30, 17, 20, 11, 0, 12>>,
        <<26, 14, 21, 15, 25, 13, 12, 5, 10, 13, 1, 2, 15>>,
        <<5, 13, 14, 30, 21, 8, 12, 15, 4, 18, 20, 9, 5>>,
        <<24, 8, 30, 2, 19, 2, 10, 13, 10, 27, 7, 17, 4>>,
        <<14, 21, 3, 6, 16, 23, 18, 16, 7, 25, 20, 19, 5>>,
        <<6, 9, 10, 27, 3, 21, 15, 19, 7, 23, 14, 25, 12>>,
        <<23, 14, 23, 4, 30, 28, 14, 14, 2, 13, 3, 17, 11>>,
        <<4, 9, 20, 2, 28, 25, 3, 28, 4, 25, 8, 25, 3>>,
        <<22, 28, 10, 30, 16, 28, 12, 3, 29, 8, 29, 23, 13>>,
        <<28, 30, 26, 17, 10, 12, 16, 26, 14, 1, 0, 6, 13>>,
        <<0, 31, 9, 5, 13, 2, 23, 23, 27, 17, 21, 19, 10>>,
        <<2, 18, 6, 15, 21, 7, 6, 13, 17, 19, 30, 27, 6>>,
        <<10, 17, 24, 26, 23, 24, 29, 30, 17, 5, 14, 2, 7>>,
        <<18, 0, 9, 24, 6, 30, 21, 28, 11, 20, 27, 13, 1>>,
        <<24, 15, 12, 17, 27, 4, 30, 21, 8, 24, 9, 14, 2>>,
        <<9, 27, 19, 14, 16, 22, 6, 21, 5, 0, 5, 26, 4>>,
        <<23, 24, 29, 18, 25, 29, 16, 7, 31, 9, 23, 18, 7>>,
        <<5, 12, 27, 13, 15, 30, 23, 1, 13, 24, 4, 11, 14>>,
        <<8, 13, 26, 3, 3, 17, 23, 12, 3, 31, 2, 29, 1>>,
        <<5, 9, 23, 19, 0, 11, 1, 29, 23, 14, 26, 23, 3>>,
        <<17, 29, 18, 4, 22, 14, 10, 1, 4, 31, 25, 16, 3>>,
        <<24, 31, 16, 19, 16, 15, 5, 5, 26, 0, 16, 5, 0>>,
        <<19, 25, 8, 16, 14, 2, 23, 15, 12, 5, 16, 16, 9>>,
        <<6, 30, 9, 6, 26, 27, 20, 1, 1, 13, 14, 8, 2>>,
        <<24, 16, 10, 24, 6, 26, 22, 10, 12, 21, 0, 26, 7>>,
        <<21, 15, 11, 2, 16, 15, 21, 6, 29, 16, 23, 8, 9>>,
        <<29, 21, 21, 7, 26, 0, 24, 25, 6, 23, 31, 7, 1>>,
        <<1, 0, 0, 0, 0, 0, 0, 0, 0, 0, 0, 0, 0>>
      >>
    >>

PERTURB_SHIFT == 5
LINEAR_PROBES == 9
PySet_MINSIZE == 8

\* hash(key) in the process started with PYTHONHASHSEED = seed
hash(key, seed) ==
    StrHashes[Cardinality({t \in HashSeeds : t <= seed})]
             [CHOOSE i \in 1..Len(Universe) : Universe[i] = key]

\* a slot without a key
NullKey == <<"NULL">>

\* a table of size free slots
RECURSIVE NewTable(_)
NewTable(size) ==
    IF size = 1 THEN <<NullKey>>
    ELSE NewTable(size \div 2) \o NewTable(size \div 2)

\* set()
set_new == NewTable(PySet_MINSIZE)

\* the elements of the set
Keys(so) == Range(so) \ {NullKey}

\* len(so)
len(so) == Cardinality(Keys(so))

\* (h >> (PERTURB_SHIFT * shifts)) & mask, for a mask below 2^10
Perturbed(h, shifts, mask) ==
    LET digit(k) == IF k <= Len(h) THEN h[k] ELSE 0
    IN  (digit(shifts + 1) + (2 ^ PERTURB_SHIFT) * digit(shifts + 2)) % (mask + 1)

\* the slot, counted from 0, that holds key or is the free slot key goes
\* to: slot i and, when they do not pass the end of the table, the
\* LINEAR_PROBES slots behind it are tried, then the search goes on from
\* slot (i * 5 + 1 + perturb) & mask with perturb shifted once more
RECURSIVE set_lookup(_, _, _, _, _)
set_lookup(table, key, h, i, shifts) ==
    LET mask == Len(table) - 1
        last == IF i + LINEAR_PROBES <= mask THEN i + LINEAR_PROBES ELSE i
        hits == {j \in i..last : table[j + 1] \in {NullKey, key}}
    IN  IF hits # {} THEN Min(hits)
        ELSE set_lookup(table, key, h,
                        (i * 5 + 1 + Perturbed(h, shifts + 1, mask)) % (mask + 1),
                        shifts + 1)

\* the slot of key in table, the search starting at hash & mask
set_slot(table, key, seed) ==
    set_lookup(table, key, hash(key, seed),
               Perturbed(hash(key, seed), 0, Len(table) - 1), 0)

\* the size of the new table: PySet_MINSIZE doubled until it exceeds minused
RECURSIVE NewSize(_, _)
NewSize(size, minused) ==
    IF size > minused THEN size ELSE NewSize(2 * size, minused)

\* the keys of old from slot k on, put into the table new in that order
RECURSIVE set_insert_clean(_, _, _, _)
set_insert_clean(new, old, k, seed) ==
    IF k > Len(old) THEN new
    ELSE IF old[k] = NullKey THEN set_insert_clean(new, old, k + 1, seed)
    ELSE set_insert_clean([new EXCEPT ![set_slot(new, old[k], seed) + 1] = old[k]],
                          old, k + 1, seed)

\* set_table_resize(so, minused)
set_table_resize(so, minused, seed) ==
    set_insert_clean(NewTable(NewSize(PySet_MINSIZE, minused)), so, 1, seed)

\* so.add(key): a key the set holds changes nothing; a new key takes its
\* slot, and the table is rebuilt for four times its keys once three
\* fifths of the slots are taken
set_add(so, key, seed) ==
    LET mask  == Len(so) - 1
        slot  == set_slot(so, key, seed)
        added == [so EXCEPT ![slot + 1] = key]
    IN  IF so[slot + 1] = key THEN so
        ELSE IF len(added) * 5 < mask * 3 THEN added
        ELSE set_table_resize(added,
                              IF len(added) > 50000 THEN len(added) * 2
                              ELSE len(added) * 4,
                              seed)

\* list(so)
list(so) == SelectSeq(so, LAMBDA key : key # NullKey)

\* ------------------------------------------------------------------------
\* Outcomes of the collaborators
\* ------------------------------------------------------------------------
PingOutcomes == {Rtt(30), Rtt(50), Rtt(80), NoSignal, TimedOut, PingErr, PingRaise}
Countries == {"US", "FR", "none"}
GeoOutcomes == {"ok", "APIError", "OtherError"}

\* an environment: what the resolver and the probes answer for each address
MkEnv(geo, country, ping, tcp) ==
    [geo |-> geo,
     country |-> [ip \in AllIps |-> IF ip \in DOMAIN country THEN country[ip] ELSE "none"],
     ping |-> [ip \in AllIps |-> IF ip \in DOMAIN ping THEN ping[ip] ELSE PingErr],
     tcp |-> [ip \in AllIps |-> IF ip \in DOMAIN tcp THEN tcp[ip] ELSE FALSE]]

\* the addresses filter_peers sends to the resolver for a candidate list
GeoIps(peer_list) ==
    IF \E i \in 1..Len(peer_list) : ~CanParse(peer_list[i]) THEN {}
    ELSE {p.ip : p \in Range(filter_invalid_peers(
                     [i \in 1..Len(peer_list) |-> from_string(peer_list[i])]))}

\* the environments that differ in an answer filter_peers(peer_list) asks for
EnvsFor(peer_list, c) ==
    IF \E i \in 1..Len(peer_list) : ~CanParse(peer_list[i])
    THEN {MkEnv("ok", <<>>, <<>>, <<>>)}
    ELSE {MkEnv(g, <<>>, <<>>, <<>>) : g \in {"APIError", "OtherError"}} \cup
         UNION { UNION { {MkEnv("ok", cty, png, tcp) :
                     tcp \in [{ip \in DOMAIN png : png[ip].kind \in {"none", "timeout"}} -> BOOLEAN]} :
                   png \in [{ip \in DOMAIN cty :
                               cty[ip] \in Range(c.target_countries)} -> PingOutcomes]} :
                 cty \in [GeoIps(peer_list) -> Countries] }

\* the environments of a run of main(): one rule per collaborator, applied
\* to the index of the address
IpIndex(ip) == IF ip \in GenIps THEN CHOOSE i \in 1..UniverseSize : GenIp(i) = ip
               ELSE IF ip = IpA THEN 1 ELSE 2

CountryRule(rule, i) ==
    IF rule = "all" THEN "US"
    ELSE IF rule = "odd" THEN (IF i % 2 = 1 THEN "US" ELSE "FR")
    ELSE "FR"

PingRule(rule, i) ==
    IF rule = "fast" THEN Rtt(30)
    ELSE IF rule = "denied" THEN PingRaise
    ELSE IF i % 4 = 1 THEN Rtt(50)
    ELSE IF i % 4 = 2 THEN NoSignal
    ELSE IF i % 4 = 3 THEN Rtt(30)
    ELSE Rtt(80)

Scenario(geo, crule, prule) ==
    MkEnv(geo,
          [ip \in AllIps |-> CountryRule(crule, IpIndex(ip))],
          [ip \in AllIps |-> PingRule(prule, IpIndex(ip))],
          [ip \in AllIps |-> IpIndex(ip) % 2 = 0])

Scenarios ==
    {Scenario("ok", "all", "fast"), Scenario("ok", "all", "mixed"),
     Scenario("ok", "odd", "mixed"), Scenario("ok", "fr", "fast"),
     Scenario("APIError", "all", "fast"), Scenario("OtherError", "all", "fast"),
     Scenario("ok", "all", "denied")}

\* ------------------------------------------------------------------------
\* Directory responses (Data._fetch_data)
\* ------------------------------------------------------------------------
Batch(lo, hi) == [i \in 1..(hi - lo + 1) |-> Cand(lo + i - 1)]

\* What _fetch_data hands to fetch_live_peers, which it does not check:
\*   body          "dict" for a JSON object, "scalar" for a JSON null,
\*                 number or boolean (no container: the test
\*                 "live_peers" in data raises TypeError), "undecodable"
\*                 for a body that is no JSON
\*   ok            "live_peers" in data
\*   hashable      data["live_peers"] is an iterable of hashable values;
\*                 when it is not, update raises TypeError after the values
\*                 of live_peers (those before the offending one)
\*   has_polkachu  "polkachu_peer" in data
Body(body, ok, live, hashable, has_polkachu) ==
    [body |-> body, ok |-> ok, live_peers |-> live, hashable |-> hashable,
     has_polkachu |-> has_polkachu,
     polkachu_peer |-> IF has_polkachu THEN <<"p", "k">> ELSE <<>>]

Data(live) == Body("dict", TRUE, live, TRUE, TRUE)
\* {} after a RequestException, or a JSON object without live_peers
NoData == Body("dict", FALSE, <<>>, TRUE, FALSE)
\* null
Scalar == Body("scalar", FALSE, <<>>, TRUE, FALSE)
\* {"live_peers": null, "polkachu_peer": "pk"}
DataLiveNull == Body("dict", TRUE, <<>>, FALSE, TRUE)
\* {"live_peers": [...]} without polkachu_peer
DataNoPolkachu(live) == Body("dict", TRUE, live, TRUE, FALSE)
\* a body response.json() cannot decode
Undecodable == Body("undecodable", FALSE, <<>>, TRUE, FALSE)

Responses ==
    { Data(Batch(1, 25)), Data(Batch(14, 26)),
      Data(<<>>),
      Data(<<CandC, CandLoop, CandC, CandC3>>),
      Data(<<CandB, CandLoop, CandA, CandC, CandC3>>),
      Data(<<CandC, CandBad>>), NoData,
      Data(<<JsonOne>>),
      Scalar, DataLiveNull, DataNoPolkachu(<<CandC>>), Undecodable }

\* ------------------------------------------------------------------------
\* State
\* ------------------------------------------------------------------------
VARIABLES
    cfg,             \* Config.peers: desired_count, max_attempts, max_latency, target_countries
    hashseed,        \* PYTHONHASHSEED of the process
    env,             \* the answers of the resolver and the probes in this run
    pc,              \* position of main() / fetch_live_peers / filter_peers
    attempts,        \* fetch_live_peers: attempts
    unique_peers,    \* fetch_live_peers: unique_peers, the table of the set
    last_data,       \* fetch_live_peers: last_data (NoData for None)
    fetches,         \* number of calls of _fetch_data made by the loop
    received,        \* number of peer strings the directory delivered, repeats included
    fetch_failed,    \* the latest _fetch_data call returned no live_peers
    delivered,       \* the strings of the live_peers lists received in this run
    live_seen,       \* some response of this run carried a live_peers list
    peers,           \* ChainLivePeers.live_peers, the argument of filter_peers
    polkachu_peer,   \* ChainLivePeers.polkachu_peer
    peer_endpoints,  \* filter_peers: peer_endpoints
    valid_stage,     \* result of _filter_invalid_peers
    geo_stage,       \* result of _filter_by_country
    peer_latencies,  \* _filter_by_latency: peer_latencies after the sort
    valid_peers,     \* result of filter_peers
    raised,          \* the exception that left fetch_live_peers or filter_peers, "" for none
    resolver_calls,  \* the address lists handed to handler.getBatchDetails
    icmp_probes,     \* the addresses handed to ping3.ping
    tcp_probes,      \* the addresses handed to _test_port_open
    run,             \* which call of filter_peers on this Filter object is running
    first_result     \* what the first call of filter_peers returned or raised

vars == <<cfg, hashseed, env, pc, attempts, unique_peers, last_data, fetches, received,
          fetch_failed, delivered, live_seen, peers, polkachu_peer, peer_endpoints, valid_stage, geo_stage,
          peer_latencies, valid_peers, raised, resolver_calls, icmp_probes,
          tcp_probes, run, first_result>>

loopVars == <<hashseed, attempts, unique_peers, last_data, fetches, received, fetch_failed,
              delivered, live_seen,
              peers, polkachu_peer>>
callVars == <<run, first_result>>
probeVars == <<icmp_probes, tcp_probes>>
stageVars == <<peer_endpoints, valid_stage, geo_stage, peer_latencies, valid_peers,
               raised, resolver_calls>>

Config(desired, tries) ==
    [desired_count |-> desired, max_attempts |-> tries,
     max_latency |-> DefaultMaxLatency, target_countries |-> DefaultTargetCountries]

\* PeerConfig.from_args: the values of the arguments as parsed
from_args(desired, tries, latency) ==
    [desired_count |-> desired, max_attempts |-> tries,
     max_latency |-> latency, target_countries |-> DefaultTargetCountries]

StagesInit ==
    /\ peer_endpoints = <<>>
    /\ valid_stage = <<>>
    /\ geo_stage = <<>>
    /\ peer_latencies = <<>>
    /\ valid_peers = <<>>
    /\ raised = ""
    /\ resolver_calls = <<>>
    /\ icmp_probes = <<>>
    /\ tcp_probes = <<>>
    /\ run = 1
    /\ first_result = Returned(<<>>)

\* main() after Config.initialise and the two chain checks
Init ==
    /\ cfg \in {Config(d, t) : d \in 1..MaxDesired, t \in 0..MaxAttemptsBound}
    /\ env \in Scenarios
    /\ hashseed \in HashSeeds
    /\ pc = "loop"
    /\ attempts = 0
    /\ unique_peers = set_new
    /\ last_data = NoData
    /\ fetches = 0
    /\ received = 0
    /\ fetch_failed = FALSE
    /\ delivered = {}
    /\ live_seen = FALSE
    /\ peers = <<>>
    /\ polkachu_peer = <<>>
    /\ StagesInit

\* ------------------------------------------------------------------------
\* Data.fetch_live_peers
\* ------------------------------------------------------------------------
\* the loop allowing one attempt too many
LoopContinues_OneMore(n, unique, c) ==
    n <= c.max_attempts /\ len(unique) < peer_amount

\* the condition of the while loop
LoopContinues(n, unique, c) ==
    n < c.max_attempts /\ len(unique) < peer_amount

\* unique_peers.update(data["live_peers"]): the values are added one by
\* one in the order of the list, a value the set holds already adding
\* nothing
RECURSIVE Update(_, _, _)
Update(unique, live, seed) ==
    IF live = <<>> THEN unique
    ELSE IF Head(live) \in Keys(unique) THEN Update(unique, Tail(live), seed)
    ELSE Update(set_add(unique, Head(live), seed), Tail(live), seed)

\* if "live_peers" in data: unique_peers.update(data["live_peers"])
Accumulate(unique, data, seed) ==
    IF data.ok THEN Update(unique, data.live_peers, seed) ELSE unique

\* what response.json() does with the body: it returns the decoded value;
\* for a body that is no JSON it raises an error that, depending on the
\* installed requests, is a RequestException (_fetch_data returns {}) or a
\* plain ValueError (which leaves _fetch_data)
fetch_data(response) ==
    IF response.body = "undecodable"
    THEN {Returned(NoData), Raised("ValueError")}
    ELSE {Returned(response)}

\* the exception the body of the loop raises on data, "" when it raises none
LoopBodyRaises(data) ==
    IF data.body = "scalar" THEN "TypeError"
    ELSE IF data.ok /\ ~data.hashable THEN "TypeError"
    ELSE ""

\* one iteration of the loop
Fetch ==
    /\ pc = "loop"
    /\ LoopContinues(attempts, unique_peers, cfg)
    /\ \E response \in Responses : \E r \in fetch_data(response) :
          LET data == r.value
              error == IF r.raised # "" THEN r.raised ELSE LoopBodyRaises(data)
          IN  /\ fetches' = fetches + 1
              /\ IF r.raised # ""
                 THEN /\ fetch_failed' = TRUE
                      /\ UNCHANGED <<last_data, unique_peers, received, delivered,
                                     live_seen>>
                 ELSE /\ last_data' = IF data.ok THEN data ELSE last_data
                      /\ unique_peers' = Accumulate(unique_peers, data, hashseed)
                      /\ received' = received + Len(data.live_peers)
                      /\ fetch_failed' = ~data.ok
                      /\ delivered' = delivered \cup Range(data.live_peers)
                      /\ live_seen' = (live_seen \/ data.ok)
              /\ IF error # ""
                 THEN /\ pc' = "fetch_raised"
                      /\ raised' = error
                      /\ UNCHANGED attempts
                 ELSE /\ attempts' = attempts + 1
                      /\ UNCHANGED <<pc, raised>>
    /\ UNCHANGED <<cfg, hashseed, env, peers, polkachu_peer>>
    /\ UNCHANGED <<peer_endpoints, valid_stage, geo_stage, peer_latencies,
                   valid_peers, resolver_calls>>
    /\ UNCHANGED callVars
    /\ UNCHANGED probeVars

\* the end of fetch_live_peers: the return to main(), or the KeyError of
\* last_data["polkachu_peer"]
ExitLoop ==
    /\ pc = "loop"
    /\ ~LoopContinues(attempts, unique_peers, cfg)
    /\ IF ~last_data.ok
       THEN /\ peers' = <<>> /\ polkachu_peer' = <<>>
            /\ pc' = "filter"
            /\ UNCHANGED raised
       ELSE IF ~last_data.has_polkachu
       THEN /\ pc' = "fetch_raised"
            /\ raised' = "KeyError"
            /\ UNCHANGED <<peers, polkachu_peer>>
       ELSE /\ peers' = Slice(list(unique_peers), peer_amount)
            /\ polkachu_peer' = last_data.polkachu_peer
            /\ pc' = "filter"
            /\ UNCHANGED raised
    /\ UNCHANGED <<cfg, hashseed, env, attempts, unique_peers, last_data, fetches,
                   received, fetch_failed, delivered, live_seen>>
    /\ UNCHANGED <<peer_endpoints, valid_stage, geo_stage, peer_latencies,
                   valid_peers, resolver_calls>>
    /\ UNCHANGED callVars
    /\ UNCHANGED probeVars

\* ------------------------------------------------------------------------
\* Filter.filter_peers, stage by stage
\* ------------------------------------------------------------------------
\* peer_endpoints = [PeerEndpoint.from_string(peer) for peer in peers]
Parse ==
    /\ pc = "filter"
    /\ IF parse_error(peers) = ""
       THEN /\ peer_endpoints' = [i \in 1..Len(peers) |-> from_string(peers[i])]
            /\ pc' = "invalid"
            /\ UNCHANGED raised
       ELSE /\ raised' = parse_error(peers)
            /\ pc' = "raised"
            /\ UNCHANGED peer_endpoints
    /\ UNCHANGED <<cfg, env, valid_stage, geo_stage, peer_latencies, valid_peers,
                   resolver_calls>>
    /\ UNCHANGED loopVars
    /\ UNCHANGED callVars
    /\ UNCHANGED probeVars

FilterInvalid ==
    /\ pc = "invalid"
    /\ valid_stage' = filter_invalid_peers(peer_endpoints)
    /\ pc' = "country"
    /\ UNCHANGED <<cfg, env, peer_endpoints, geo_stage, peer_latencies, valid_peers,
                   raised, resolver_calls>>
    /\ UNCHANGED loopVars
    /\ UNCHANGED callVars
    /\ UNCHANGED probeVars

FilterCountry ==
    /\ pc = "country"
    /\ LET r == filter_by_country(valid_stage, cfg, env)
       IN  /\ geo_stage' = r.value
           /\ raised' = r.raised
           /\ pc' = IF r.raised = "" THEN "latency" ELSE "raised"
    /\ resolver_calls' = Append(resolver_calls, PeerMapKeys(valid_stage))
    /\ UNCHANGED <<cfg, env, peer_endpoints, valid_stage, peer_latencies, valid_peers>>
    /\ UNCHANGED loopVars
    /\ UNCHANGED callVars
    /\ UNCHANGED probeVars

\* a stage that goes on appending to the list of the call before
NewLatencies_Kept(previous) == previous

\* peer_latencies = []: the list a call of the stage starts from, whatever
\* the call before left
NewLatencies(previous) == <<>>

FilterLatency ==
    /\ pc = "latency"
    /\ LET r == latency_stage(NewLatencies(peer_latencies), geo_stage, cfg, env)
       IN  /\ peer_latencies' = r.value
           /\ raised' = r.raised
           /\ pc' = IF r.raised = "" THEN "return" ELSE "raised"
    /\ UNCHANGED <<cfg, env, peer_endpoints, valid_stage, geo_stage, valid_peers,
                   resolver_calls>>
    /\ UNCHANGED loopVars
    /\ UNCHANGED callVars
    /\ icmp_probes' = icmp_probes \o PingCalls(geo_stage, cfg, env)
    /\ tcp_probes' = tcp_probes \o PortTests(geo_stage, cfg, env)

\* return [str(peer) for peer in filtered_peers][: desired_count]
Return ==
    /\ pc = "return"
    /\ valid_peers' = Slice([i \in 1..Len(peer_latencies) |-> str(peer_latencies[i][1])],
                            cfg.desired_count)
    /\ pc' = "returned"
    /\ UNCHANGED <<cfg, env, peer_endpoints, valid_stage, geo_stage, peer_latencies,
                   raised, resolver_calls>>
    /\ UNCHANGED loopVars
    /\ UNCHANGED callVars
    /\ UNCHANGED probeVars

\* main(): the peers are printed, or NoValidPeersError ends the run with
\* status 1
Report ==
    /\ pc = "returned"
    /\ pc' = IF Len(valid_peers) > 0 THEN "printed" ELSE "exit1"
    /\ UNCHANGED <<cfg, env>>
    /\ UNCHANGED loopVars
    /\ UNCHANGED stageVars
    /\ UNCHANGED callVars
    /\ UNCHANGED probeVars

Stages == Parse \/ FilterInvalid \/ FilterCountry \/ FilterLatency \/ Return

Next == Fetch \/ ExitLoop \/ Parse \/ FilterInvalid \/ FilterCountry
            \/ FilterLatency \/ Return \/ Report

Spec == Init /\ [][Next]_vars

\* fetch_live_peers runs on one thread and every request has a timeout:
\* an iteration of the loop that can be made is made, and so is the return
FairSpec == Spec /\ WF_vars(Fetch) /\ WF_vars(ExitLoop)

\* ------------------------------------------------------------------------
\* filter_peers on its own: the candidate list, the configuration and the
\* answers of the collaborators are drawn, then the stages run
\* ------------------------------------------------------------------------
RECURSIVE ListsUpTo(_)
ListsUpTo(n) ==
    IF n = 0 THEN {<<>>}
    ELSE ListsUpTo(n - 1) \cup
         {Append(l, x) : l \in {m \in ListsUpTo(n - 1) : Len(m) = n - 1},
                         x \in FilterCandidates}

InitFilter ==
    /\ cfg \in {Config(d, 1) : d \in 1..MaxDesired}
    /\ peers \in ListsUpTo(MaxPeers)
    /\ env \in EnvsFor(peers, cfg)
    /\ hashseed = 0
    /\ pc = "filter"
    /\ attempts = 0
    /\ unique_peers = set_new
    /\ last_data = NoData
    /\ fetches = 0
    /\ received = 0
    /\ fetch_failed = FALSE
    /\ delivered = {}
    /\ live_seen = FALSE
    /\ polkachu_peer = <<>>
    /\ StagesInit

\* the answers of probes that have become slower: a round trip of 30 ms
\* takes 80 ms
Slower(e) ==
    [e EXCEPT !.ping = [ip \in DOMAIN e.ping |->
                           IF e.ping[ip] = Rtt(30) THEN Rtt(80) ELSE e.ping[ip]]]

\* a second call of filter_peers on the same Filter object, with the same
\* list, once the first call has returned or raised.  Everything the first
\* call wrote is left as it is; the resolver and the probes answer as
\* before, or the probes have become slower.
Rerun ==
    /\ pc \in {"returned", "raised"}
    /\ run = 1
    /\ run' = 2
    /\ first_result' = [raised |-> raised, value |-> valid_peers, env |-> env,
                        resolver_calls |-> resolver_calls,
                        icmp_probes |-> icmp_probes, tcp_probes |-> tcp_probes]
    /\ env' \in {env, Slower(env)}
    /\ raised' = ""
    /\ pc' = "filter"
    /\ UNCHANGED <<cfg, peer_endpoints, valid_stage, geo_stage, peer_latencies,
                   valid_peers, resolver_calls>>
    /\ UNCHANGED loopVars
    /\ UNCHANGED probeVars

NextFilter == Parse \/ FilterInvalid \/ FilterCountry \/ FilterLatency \/ Return
                 \/ Rerun

SpecFilter == InitFilter /\ [][NextFilter]_vars

\* ------------------------------------------------------------------------
\* main() from its first line: the arguments are parsed, then the run
\* ------------------------------------------------------------------------
\* what --desired_count and --max_attempts are given on the command line
ArgInts == {-1, 0, 1}
\* what --max_latency is given
ArgLatencies == {-1, 0, DefaultMaxLatency}

InitArgs ==
    /\ cfg = from_args(DefaultDesiredCount, DefaultMaxAttempts, DefaultMaxLatency)
    /\ env \in Scenarios
    /\ hashseed \in HashSeeds
    /\ pc = "initialise"
    /\ attempts = 0
    /\ unique_peers = set_new
    /\ last_data = NoData
    /\ fetches = 0
    /\ received = 0
    /\ fetch_failed = FALSE
    /\ delivered = {}
    /\ live_seen = FALSE
    /\ peers = <<>>
    /\ polkachu_peer = <<>>
    /\ StagesInit

\* config = Config.initialise(): parse_args converts with type=int and
\* from_args stores what it is given
Initialise ==
    /\ pc = "initialise"
    /\ \E d \in ArgInts, t \in ArgInts, l \in ArgLatencies :
          cfg' = from_args(d, t, l)
    /\ pc' = "check_network"
    /\ UNCHANGED env
    /\ UNCHANGED loopVars
    /\ UNCHANGED stageVars
    /\ UNCHANGED callVars
    /\ UNCHANGED probeVars

\* the --network argument
Network == "cosmos"

\* a JSON list of chain names
ChainList(names) == [body |-> "list", names |-> names]

\* what the directory answers to api/v2/chains: a list with the network, a
\* list without it, nothing after a RequestException, null, no JSON
ChainsResponses ==
    {ChainList(<<"cosmos", "osmosis">>), ChainList(<<"osmosis">>), NoData, Scalar,
     Undecodable}

\* the test "config.peers.network not in valid_chains": "" when the network
\* is among the chains, otherwise the exception raised
network_check(valid_chains) ==
    IF valid_chains.body = "scalar" THEN "TypeError"
    ELSE IF valid_chains.body = "list" /\ Network \in Range(valid_chains.names) THEN ""
    ELSE "UnsupportedNetworkError"

\* the first check of main(): UnsupportedNetworkError ends the run with
\* status 1, any other exception leaves main()
CheckNetwork ==
    /\ pc = "check_network"
    /\ \E response \in ChainsResponses : \E r \in fetch_data(response) :
          LET error == IF r.raised # "" THEN r.raised ELSE network_check(r.value)
          IN  /\ pc' = IF error = "" THEN "check_service"
                       ELSE IF error = "UnsupportedNetworkError" THEN "unsupported"
                       ELSE "check_raised"
              /\ raised' = IF error \in {"", "UnsupportedNetworkError"} THEN raised
                           ELSE error
    /\ UNCHANGED <<cfg, env>>
    /\ UNCHANGED loopVars
    /\ UNCHANGED <<peer_endpoints, valid_stage, geo_stage, peer_latencies,
                   valid_peers, resolver_calls>>
    /\ UNCHANGED callVars
    /\ UNCHANGED probeVars

\* a JSON object with the keys network, name, chain_id and
\* polkachu_services.  service says what the lookup
\* polkachu_services["live_peers"]["active"] meets: "active" when it gets
\* to a value (active tells whether that value is true), "missing" when a
\* key on the way is not there (polkachu_services {} or {"live_peers": {}}),
\* "unsubscriptable" when a value on the way takes no key
\* (polkachu_services null or {"live_peers": null})
Details(service, active) == [body |-> "dict", service |-> service, active |-> active]

\* what the directory answers to api/v2/chains/<network>: the service
\* active, not active, a key missing, a value that takes no key, nothing
\* after a RequestException, null, no JSON
DetailsResponses ==
    {Details("active", TRUE), Details("active", FALSE), Details("missing", FALSE),
     Details("unsubscriptable", FALSE), NoData, Scalar, Undecodable}

\* ChainDetails.from_dict(data) and the test of
\* polkachu_services["live_peers"]["active"]: "" when the service is
\* active, otherwise the exception raised
service_check(data) ==
    IF data.body = "scalar" THEN "TypeError"
    ELSE IF "service" \notin DOMAIN data THEN "KeyError"
    ELSE IF data.service = "missing" THEN "KeyError"
    ELSE IF data.service = "unsubscriptable" THEN "TypeError"
    ELSE IF ~data.active THEN "ServiceUnavailableError"
    ELSE ""

\* the second check of main(): ServiceUnavailableError ends the run with
\* status 1, any other exception leaves main()
CheckService ==
    /\ pc = "check_service"
    /\ \E response \in DetailsResponses : \E r \in fetch_data(response) :
          LET error == IF r.raised # "" THEN r.raised ELSE service_check(r.value)
          IN  /\ pc' = IF error = "" THEN "loop"
                       ELSE IF error = "ServiceUnavailableError" THEN "unavailable"
                       ELSE "check_raised"
              /\ raised' = IF error \in {"", "ServiceUnavailableError"} THEN raised
                           ELSE error
    /\ UNCHANGED <<cfg, env>>
    /\ UNCHANGED loopVars
    /\ UNCHANGED <<peer_endpoints, valid_stage, geo_stage, peer_latencies,
                   valid_peers, resolver_calls>>
    /\ UNCHANGED callVars
    /\ UNCHANGED probeVars

NextArgs == Initialise \/ CheckNetwork \/ CheckService \/ Next

SpecArgs == InitArgs /\ [][NextArgs]_vars

\* ------------------------------------------------------------------------
\* PeerEndpoint on its own: a string is drawn, parsed and written back
\* ------------------------------------------------------------------------
Alphabet == {"a", "@", ":", "0", "1", "-", "+", " ", "_"}

RECURSIVE StringsUpTo(_)
StringsUpTo(n) ==
    IF n = 0 THEN {<<>>}
    ELSE LET shorter == StringsUpTo(n - 1)
         IN  shorter \cup {Append(t, ch) : t \in {u \in shorter : Len(u) = n - 1},
                                           ch \in Alphabet}

\* n@123.456.789.123:8080, an address that is no IP literal
CandBadIp ==
    <<"n", "@", "1", "2", "3", ".", "4", "5", "6", ".", "7", "8", "9", ".",
      "1", "2", "3", ":", "8", "0", "8", "0">>
\* m@2.2.2.2:-1
CandNegPort == <<"m", "@">> \o IpB \o <<":", "-", "1">>
\* a@1.1.1.1:80 followed by a line feed
CandNewline == <<"a", "@">> \o IpA \o <<":", "8", "0", "\n">>
\* a@1.1.1.1:8_0
CandUnderscore == <<"a", "@">> \o IpA \o <<":", "8", "_", "0">>
\* a@1.1.1.1: and a port of the fullwidth digits 8 and 0
CandFullwidth == <<"a", "@">> \o IpA \o <<":", "U+FF18", "U+FF10">>
\* a@1.1.1.1:80
CandPort80 == <<"a", "@">> \o IpA \o <<":", "8", "0">>
\* a@1.1.1.1:+80
CandPlusPort == <<"a", "@">> \o IpA \o <<":", "+", "8", "0">>
\* a@1.1.1.1:+ 80
CandPlusSpace == <<"a", "@">> \o IpA \o <<":", "+", " ", "8", "0">>
\* a@1.1.1.1:8__0
CandTwoUnderscores == <<"a", "@">> \o IpA \o <<":", "8", "_", "_", "0">>
\* a@1.1.1.1: and a port of the Arabic-Indic digit 3
CandArabicPort == <<"a", "@">> \o IpA \o <<":", "U+0663">>
\* a@1.1.1.1:80 followed by an ideographic space
CandWideSpace == <<"a", "@">> \o IpA \o <<":", "8", "0", "U+3000">>

\* the strings drawn besides those spelled letter by letter
ParseInputs ==
    FilterCandidates
        \cup {CandC3, CandBadIp, CandNegPort, CandNewline, CandUnderscore,
              CandFullwidth, CandPort80, CandPlusPort, CandPlusSpace,
              CandTwoUnderscores, CandArabicPort, CandWideSpace}

InitParse ==
    /\ cfg = Config(1, 1)
    /\ env = MkEnv("ok", <<>>, <<>>, <<>>)
    /\ hashseed = 0
    /\ pc = "from_string"
    /\ peers \in {<<s>> : s \in StringsUpTo(MaxStrLen) \cup ParseInputs}
    /\ attempts = 0
    /\ unique_peers = set_new
    /\ last_data = NoData
    /\ fetches = 0
    /\ received = 0
    /\ fetch_failed = FALSE
    /\ delivered = {}
    /\ live_seen = FALSE
    /\ polkachu_peer = <<>>
    /\ StagesInit

\* PeerEndpoint.from_string(peers[0])
FromString ==
    /\ pc = "from_string"
    /\ IF CanParse(peers[1])
       THEN /\ peer_endpoints' = <<from_string(peers[1])>>
            /\ pc' = "parsed"
            /\ UNCHANGED raised
       ELSE /\ raised' = from_string_error(peers[1])
            /\ pc' = "raised"
            /\ UNCHANGED peer_endpoints
    /\ UNCHANGED <<cfg, env, valid_stage, geo_stage, peer_latencies, valid_peers,
                   resolver_calls>>
    /\ UNCHANGED loopVars
    /\ UNCHANGED callVars
    /\ UNCHANGED probeVars

\* str(peer) of the parsed endpoint
Format ==
    /\ pc = "parsed"
    /\ valid_peers' = <<str(peer_endpoints[1])>>
    /\ pc' = "formatted"
    /\ UNCHANGED <<cfg, env, peer_endpoints, valid_stage, geo_stage, peer_latencies,
                   raised, resolver_calls>>
    /\ UNCHANGED loopVars
    /\ UNCHANGED callVars
    /\ UNCHANGED probeVars

NextParse == FromString \/ Format

SpecParse == InitParse /\ [][NextParse]_vars

\* ------------------------------------------------------------------------
\* Properties of the acquisition loop
\* ------------------------------------------------------------------------
\* a candidate that survives the filter pipeline in this run
Qualifies(s, c, e) ==
    LET r == filter_peers(<<s>>, c, e)
    IN  r.raised = "" /\ Len(r.value) > 0

Qualified == {s \in Keys(unique_peers) : Qualifies(s, cfg, env)}

\* C1 as stated: once desired_count distinct qualifying peers have been
\* accumulated, the loop issues no further directory fetch.
C1_StopsWhenQualified ==
    [][(pc = "loop" /\ Cardinality(Qualified) >= cfg.desired_count)
          => fetches' = fetches]_vars

\* C2 as stated: with fewer than desired_count qualifying peers and
\* attempts < max_attempts the loop fetches again rather than stopping.
C2_FetchesUntilQualified ==
    [][(pc = "loop" /\ Cardinality(Qualified) < cfg.desired_count
           /\ attempts < cfg.max_attempts)
          => fetches' = fetches + 1]_vars

\* C3: whatever the directory answers, the loop is left, and it never makes
\* more than max_attempts directory fetches.
C3_LoopTerminates ==
    /\ <>(pc # "loop")
    /\ [](fetches <= cfg.max_attempts)

\* every attempt was used on answers that added nothing
C3_Witness ==
    /\ pc = "filter"
    /\ fetches >= 2
    /\ fetches = cfg.max_attempts
    /\ len(unique_peers) = 0

NoDup(seq) == \A i, j \in 1..Len(seq) : i # j => seq[i] # seq[j]

\* fetch_live_peers has returned
FetchReturned == pc \notin {"loop", "fetch_raised"}

\* C4: the candidates are accumulated as a set: a string delivered more than
\* once counts once, the list fetch_live_peers returns to the filter holds
\* each accumulated string at most once (all of them up to peer_amount),
\* and the result of the run holds no endpoint string twice.
C4_SetSemantics ==
    /\ len(unique_peers) <= received
    /\ FetchReturned =>
          /\ NoDup(peers)
          /\ Range(peers) \subseteq Keys(unique_peers)
          /\ Len(peers) = IF ~last_data.ok THEN 0
                          ELSE IF len(unique_peers) < peer_amount
                               THEN len(unique_peers) ELSE peer_amount
    /\ NoDup(valid_peers)

\* strings were delivered more than once and two peers were returned
C4_Witness ==
    /\ pc = "returned"
    /\ fetches >= 2
    /\ received > len(unique_peers)
    /\ Len(valid_peers) >= 2

\* ------------------------------------------------------------------------
\* Properties of the filter pipeline
\* ------------------------------------------------------------------------
\* C5: the sequence filter_peers returns has at most desired_count entries.
C5_AtMostDesired ==
    pc = "returned" => Len(valid_peers) <= cfg.desired_count

\* more peers passed the stages than were asked for
C5_Witness ==
    /\ pc = "returned"
    /\ Len(peer_latencies) > cfg.desired_count
    /\ Len(valid_peers) = cfg.desired_count

\* the policy of the latency stage, read off the answers of the probes
KeptByPolicy(peer) ==
    \/ env.ping[peer.ip].kind = "rtt" /\ env.ping[peer.ip].ms <= cfg.max_latency
    \/ env.ping[peer.ip].kind = "none" /\ env.tcp[peer.ip]

RecordedByPolicy(peer) ==
    IF env.ping[peer.ip].kind = "rtt" THEN env.ping[peer.ip].ms ELSE cfg.max_latency

LatencyStageReturned == pc \in {"return", "returned", "printed", "exit1"}

\* C6: when the latency stage returns, a peer of its input is in its output
\* exactly if ICMP answered within max_latency (recorded with that latency)
\* or ICMP gave no signal and the TCP connect succeeded (recorded with
\* max_latency); every other peer is dropped.
C6_KeepDropPolicy ==
    LatencyStageReturned =>
        /\ \A i \in 1..Len(geo_stage) :
              KeptByPolicy(geo_stage[i])
                 <=> \E j \in 1..Len(peer_latencies) : peer_latencies[j][1] = geo_stage[i]
        /\ \A j \in 1..Len(peer_latencies) :
              /\ peer_latencies[j][1] \in Range(geo_stage)
              /\ peer_latencies[j][2] = RecordedByPolicy(peer_latencies[j][1])
        /\ Len(peer_latencies) =
              Cardinality({i \in 1..Len(geo_stage) : KeptByPolicy(geo_stage[i])})

\* one peer kept through the TCP fallback, one dropped for its latency
C6_Witness ==
    /\ pc = "return"
    /\ Len(geo_stage) = 2
    /\ Len(peer_latencies) = 1
    /\ env.ping[peer_latencies[1][1].ip].kind = "none"
    /\ peer_latencies[1][2] = cfg.max_latency
    /\ \E i \in 1..2 : /\ env.ping[geo_stage[i].ip].kind = "rtt"
                       /\ env.ping[geo_stage[i].ip].ms > cfg.max_latency

PosIn(seq, x) == CHOOSE i \in 1..Len(seq) : seq[i] = x

\* C7: the output of the latency stage ascends in recorded latency, peers of
\* equal latency keep the order of the input, no peer kept through the TCP
\* fallback precedes a peer measured below max_latency, and the result of
\* filter_peers is the front of that ranking, so that no peer left out is
\* faster than a peer returned.
C7_RankedByLatency ==
    /\ LatencyStageReturned =>
          \A i, j \in 1..Len(peer_latencies) : i < j =>
              /\ peer_latencies[i][2] <= peer_latencies[j][2]
              /\ peer_latencies[i][2] = peer_latencies[j][2] =>
                    PosIn(geo_stage, peer_latencies[i][1])
                       < PosIn(geo_stage, peer_latencies[j][1])
              /\ ~ /\ env.ping[peer_latencies[i][1].ip].kind = "none"
                   /\ env.ping[peer_latencies[j][1].ip].kind = "rtt"
                   /\ env.ping[peer_latencies[j][1].ip].ms < cfg.max_latency
    /\ pc \in {"returned", "printed", "exit1"} =>
          /\ Len(valid_peers) = IF Len(peer_latencies) < cfg.desired_count
                                THEN Len(peer_latencies) ELSE cfg.desired_count
          /\ \A i \in 1..Len(valid_peers) : valid_peers[i] = str(peer_latencies[i][1])
          /\ \A i \in 1..Len(valid_peers) :
                \A l \in (Len(valid_peers) + 1)..Len(peer_latencies) :
                    peer_latencies[i][2] <= peer_latencies[l][2]

\* the sort moved a measured peer in front of the input's first peer, a TCP
\* fallback peer ties with a measured one, and the ranking was truncated
C7_Witness ==
    /\ pc = "returned"
    /\ Len(valid_peers) < Len(peer_latencies)
    /\ geo_stage[1] # peer_latencies[1][1]
    /\ peer_latencies[1][2] < cfg.max_latency
    /\ \E i, j \in 1..Len(peer_latencies) :
          /\ i < j
          /\ peer_latencies[i][2] = peer_latencies[j][2]
          /\ env.ping[peer_latencies[i][1].ip].kind # env.ping[peer_latencies[j][1].ip].kind

\* C8 as stated: once the batch geolocation call has failed, the geography
\* stage has returned the empty list, no exception has left filter_peers and
\* the result of the pass is empty.
C8_GeoFailClosed ==
    (Len(resolver_calls) > 0 /\ env.geo # "ok") =>
        /\ raised = ""
        /\ geo_stage = <<>>
        /\ valid_peers = <<>>

\* C9: after a successful batch call the output of the geography stage holds
\* only endpoints of its input whose resolved country is a target country;
\* an endpoint without a resolved country is never in it.
C9_OnlyTargetCountries ==
    (Len(resolver_calls) > 0 /\ env.geo = "ok") =>
        \A i \in 1..Len(geo_stage) :
            /\ geo_stage[i] \in Range(valid_stage)
            /\ env.country[geo_stage[i].ip] \in Range(cfg.target_countries)
            /\ env.country[geo_stage[i].ip] # "none"

\* of two endpoints one was kept and the one without a country was dropped
C9_Witness ==
    /\ pc = "latency"
    /\ env.geo = "ok"
    /\ Len(valid_stage) = 2
    /\ Len(geo_stage) = 1
    /\ \E i \in 1..2 : env.country[valid_stage[i].ip] = "none"

\* C10 as stated: filter_peers drops the candidates that do not parse and
\* goes on with the others; no exception of from_string leaves it.
C10_MalformedDropped ==
    pc \notin {"loop", "filter"} =>
        /\ raised \notin {"ValueError", "AttributeError"}
        /\ Len(peer_endpoints) = Cardinality({i \in 1..Len(peers) : CanParse(peers[i])})

\* ------------------------------------------------------------------------
\* Failing fetches and exhaustion
\* ------------------------------------------------------------------------
\* C11 as stated: a directory fetch that fails (no live_peers in what it
\* gave) counts as an attempt, leaves the accumulated peers and last_data
\* as they were, raises nothing, and is followed by another fetch whenever
\* attempts remain.
C11_FailedFetchIsEmptyAttempt ==
    [][/\ (fetches' = fetches + 1 /\ fetch_failed')
          => /\ unique_peers' = unique_peers
             /\ last_data' = last_data
             /\ attempts' = attempts + 1
             /\ pc' = "loop"
             /\ raised' = ""
       /\ (pc = "loop" /\ fetch_failed /\ attempts < cfg.max_attempts)
          => fetches' = fetches + 1]_vars

\* C12: when the attempts are used up and fewer than desired_count of the
\* accumulated candidates qualify, nothing is raised by the loop or by
\* filter_peers, and the result is exactly the candidates that qualify.
C12_ExhaustionGivesPartialResult ==
    (/\ pc # "loop"
     /\ attempts >= cfg.max_attempts
     /\ Cardinality(Qualified) < cfg.desired_count)
        => /\ raised = ""
           /\ pc \in {"returned", "printed", "exit1"}
                => Range(valid_peers) = {str(from_string(s)) : s \in Qualified}

\* ------------------------------------------------------------------------
\* Properties of the endpoint parser
\* ------------------------------------------------------------------------
Max(S) == CHOOSE x \in S : \A y \in S : x >= y

\* s reads as <identifier>@<address>:<port>: one "@" and a ":" after it
HasEndpointForm(s) ==
    /\ Cardinality(SepAt(s, "@")) = 1
    /\ \E i \in SepAt(s, ":") : i > Min(SepAt(s, "@"))

\* the address of such a string: between the "@" and the last ":"
EndpointAddress(s) == SubSeq(s, Min(SepAt(s, "@")) + 1, Max(SepAt(s, ":")) - 1)

\* the port of such a string: after the last ":"
EndpointPort(s) == SubSeq(s, Max(SepAt(s, ":")) + 1, Len(s))

IsUnsigned(seg) == Len(seg) > 0 /\ \A i \in 1..Len(seg) : IsAsciiDigit(seg[i])

\* dotted quad with four decimal numbers of 0..255
IsIPv4Literal(a) ==
    LET parts == split(a, ".")
    IN  /\ Len(parts) = 4
        /\ \A i \in 1..4 : /\ IsUnsigned(parts[i])
                           /\ Len(parts[i]) <= 3
                           /\ DigitsVal(parts[i]) <= 255

HexDigits == {Digits[i] : i \in 1..10} \cup {"a", "b", "c", "d", "e", "f"}

\* colon-separated groups of up to four hexadecimal digits: eight of them,
\* or fewer around one "::"
IsIPv6Literal(a) ==
    LET g       == split(a, ":")
        empties == {i \in 1..Len(g) : g[i] = <<>>}
        doubles == {i \in 1..(Len(a) - 1) : a[i] = ":" /\ a[i + 1] = ":"}
    IN  /\ \A i \in 1..Len(g) :
              Len(g[i]) <= 4 /\ \A j \in 1..Len(g[i]) : g[i][j] \in HexDigits
        /\ \/ empties = {} /\ Len(g) = 8
           \/ /\ Cardinality(doubles) = 1
              /\ empties = Min(empties)..Max(empties)
              /\ Len(g) - Cardinality(empties) <= 7

\* a valid endpoint string as the parser's contract describes it
WellFormed(s) ==
    /\ HasEndpointForm(s)
    /\ Min(SepAt(s, "@")) > 1
    /\ IsIPv4Literal(EndpointAddress(s)) \/ IsIPv6Literal(EndpointAddress(s))
    /\ IsUnsigned(EndpointPort(s))
    /\ DigitsVal(EndpointPort(s)) <= MaxPort

\* seg is what Python prints for an int: digits without leading zeros,
\* after at most a minus sign
IsCanonicalInt(seg) ==
    LET d == IF Len(seg) > 0 /\ seg[1] = "-" THEN Tail(seg) ELSE seg
    IN  /\ IsUnsigned(d)
        /\ d[1] # "0" \/ seg = <<"0">>

\* C13 as stated: for every valid endpoint string s that is parsed and
\* written back, str(PeerEndpoint.from_string(s)) equals s.
C13_RoundTrip ==
    (pc = "formatted" /\ WellFormed(peers[1])) => valid_peers[1] = peers[1]

\* C13 amended: for every string s that from_string accepts and whose port
\* segment is the decimal text Python prints for its value,
\* str(PeerEndpoint.from_string(s)) equals s.
C13_RoundTripCanonicalPort ==
    (pc = "formatted" /\ IsCanonicalInt(split(split(peers[1], "@")[2], ":")[2]))
        => valid_peers[1] = peers[1]

\* a@1.1.1.1:1 has been parsed and written back
C13_Witness ==
    /\ pc = "formatted"
    /\ peers = <<CandA>>
    /\ peer_endpoints[1].port = 1
    /\ valid_peers = <<CandA>>

\* C14: every string from_string accepts is a valid endpoint string, that
\* is, every malformed string (no "@", no ":", a port that is no number of
\* 0..65535, an address that is no IPv4 or IPv6 literal) is rejected.
C14_MalformedRejected ==
    pc \in {"parsed", "formatted"} => WellFormed(peers[1])

\* ------------------------------------------------------------------------
\* Properties of the stages
\* ------------------------------------------------------------------------
\* the candidates of a list whose address is no loopback form
NotLoopback(peer_list) ==
    SelectSeq(peer_list, LAMBDA s : EndpointAddress(s) \notin LoopbackForms)

\* C15: of candidates of the form <identifier>@<address>:<port>, the
\* validity stage excludes those whose address is 127.0.0.1, localhost or
\* ::1 and retains every other one in the original order.
C15_LoopbackExcluded ==
    (/\ pc # "filter"
     /\ \A i \in 1..Len(peers) : /\ HasEndpointForm(peers[i])
                                 /\ IsUnsigned(EndpointPort(peers[i])))
        => /\ raised # "ValueError"
           /\ pc # "invalid"
                => valid_stage = [i \in 1..Len(NotLoopback(peers)) |->
                                     from_string(NotLoopback(peers)[i])]

\* C16: no probe failure escapes the latency stage: whatever the ICMP and
\* TCP probes do for the peers it is given, _filter_by_latency returns.
C16_LatencyStageReturns ==
    [][pc = "latency" => (pc' = "return" /\ raised' = "")]_vars

\* C17: every peer filter_peers returns passes the three filters at once:
\* its address is no loopback form, its resolved country is a target
\* country and its recorded latency is at most max_latency.  A single
\* candidate outside the target countries, or with an ICMP latency above
\* max_latency, gives an empty result.
C17_AllFiltersHold ==
    pc = "returned" =>
        /\ \A i \in 1..Len(valid_peers) :
              /\ i <= Len(peer_latencies)
              /\ valid_peers[i] = str(peer_latencies[i][1])
              /\ peer_latencies[i][1].ip \notin LoopbackForms
              /\ env.country[peer_latencies[i][1].ip] \in Range(cfg.target_countries)
              /\ peer_latencies[i][2] <= cfg.max_latency
        /\ (/\ Len(peers) = 1
            /\ \/ env.country[from_string(peers[1]).ip] \notin Range(cfg.target_countries)
               \/ /\ env.ping[from_string(peers[1]).ip].kind = "rtt"
                  /\ env.ping[from_string(peers[1]).ip].ms > cfg.max_latency)
              => valid_peers = <<>>

\* of two candidates one is returned, measured by ICMP within the ceiling
C17_Witness ==
    /\ pc = "returned"
    /\ Len(peers) = 2
    /\ Len(valid_peers) = 1
    /\ env.ping[peer_latencies[1][1].ip].kind = "rtt"

\* a single candidate was located in a target country, answered the ICMP
\* probe too slowly and nothing is returned
C17_WitnessSingle ==
    /\ pc = "returned"
    /\ Len(peers) = 1
    /\ Len(geo_stage) = 1
    /\ env.ping[geo_stage[1].ip].ms > cfg.max_latency
    /\ valid_peers = <<>>

CountryStageDone ==
    \/ pc \in {"latency", "return", "returned"}
    \/ pc = "raised" /\ raised \notin {"ValueError", "AttributeError"}

\* C19: a call of filter_peers makes at most one call of the resolver, and
\* that call carries the addresses of all endpoints that survived the
\* validity stage.
C19_OneBatchCall ==
    /\ Len(resolver_calls) <= run
    /\ CountryStageDone
          => /\ Len(resolver_calls) = run
             /\ Range(resolver_calls[run])
                    = {valid_stage[i].ip : i \in 1..Len(valid_stage)}

\* one call has carried the two addresses of two surviving endpoints
C19_Witness ==
    /\ pc = "latency"
    /\ run = 1
    /\ Len(valid_stage) = 2
    /\ valid_stage[1].ip # valid_stage[2].ip
    /\ Len(resolver_calls) = 1
    /\ Len(resolver_calls[1]) = 2

\* ------------------------------------------------------------------------
\* Properties of the configuration
\* ------------------------------------------------------------------------
\* C20: the acquisition loop and the filter pipeline only ever run with a
\* configuration of desired_count > 0, max_attempts >= 1 and
\* max_latency > 0.
C20_ConfigWithinBounds ==
    pc \notin {"initialise", "check_network", "check_service", "unsupported",
               "unavailable", "check_raised"}
        => /\ cfg.desired_count > 0
           /\ cfg.max_attempts >= 1
           /\ cfg.max_latency > 0

\* the peers the latency stage kept
KeptPeers == {peer_latencies[j][1] : j \in 1..Len(peer_latencies)}

\* C21: a peer whose ICMP probe timed out or gave no signal gets the TCP
\* connect fallback: when its TCP connect succeeds it is kept by the latency
\* stage.
C21_FallbackAfterTimeout ==
    LatencyStageReturned =>
        \A i \in 1..Len(geo_stage) :
            (/\ env.ping[geo_stage[i].ip].kind \in {"none", "timeout"}
             /\ env.tcp[geo_stage[i].ip])
                => geo_stage[i] \in KeptPeers

\* ------------------------------------------------------------------------
\* Order of the stages
\* ------------------------------------------------------------------------
Last(seq) == seq[Len(seq)]

IpsOf(peer_list) == {peer_list[i].ip : i \in 1..Len(peer_list)}

\* C22: the stages run in the order validity, geography, latency.  The
\* resolver is called by the geography stage only, with addresses of
\* endpoints that survived the validity stage, none of them a loopback
\* form; probes are sent by the latency stage only, to addresses whose
\* endpoint survived the geography stage and was resolved to a target
\* country.
C22_StagesInOrder ==
    [][/\ pc = "invalid" => pc' = "country"
       /\ pc = "country" => pc' \in {"latency", "raised"}
       /\ resolver_calls' # resolver_calls
            => /\ pc = "country"
               /\ Range(Last(resolver_calls')) \subseteq IpsOf(valid_stage)
               /\ Range(Last(resolver_calls')) \cap LoopbackForms = {}
       /\ (icmp_probes' # icmp_probes \/ tcp_probes' # tcp_probes)
            => /\ pc = "latency"
               /\ \A ip \in Range(icmp_probes') \cup Range(tcp_probes') :
                     /\ ip \in IpsOf(geo_stage)
                     /\ ip \in IpsOf(valid_stage)
                     /\ ip \notin LoopbackForms
                     /\ env.country[ip] \in Range(cfg.target_countries)]_vars

\* of a loopback candidate and a candidate abroad neither was probed, after
\* a call of the resolver with the one address that was valid
C22_Witness ==
    /\ pc = "return"
    /\ Len(peers) = 2
    /\ \E i \in 1..2 : from_string(peers[i]).ip \in LoopbackForms
    /\ Len(valid_stage) = 1
    /\ Len(resolver_calls) = 1
    /\ Len(resolver_calls[1]) = 1
    /\ geo_stage = <<>>
    /\ icmp_probes = <<>>
    /\ tcp_probes = <<>>

\* a probe of each kind has been sent to an endpoint in a target country
C22_WitnessProbed ==
    /\ pc = "return"
    /\ Len(icmp_probes) = 2
    /\ Len(tcp_probes) = 1
    /\ Len(peer_latencies) = 2

\* C23: the geography stage decides each endpoint on its own: after a
\* successful batch call its output holds every endpoint of its input whose
\* address is resolved to a target country, endpoints that share an address
\* included.
C23_EveryEndpointDecided ==
    (pc \in {"latency", "return", "returned"} /\ env.geo = "ok")
        => \A i \in 1..Len(valid_stage) :
              env.country[valid_stage[i].ip] \in Range(cfg.target_countries)
                 => valid_stage[i] \in Range(geo_stage)

\* ------------------------------------------------------------------------
\* The result of fetch_live_peers
\* ------------------------------------------------------------------------
\* C24: whatever the directory answered, the list fetch_live_peers returns
\* holds no string twice, has at most peer_amount (25) entries, holds only
\* strings of live_peers lists received in this run, and is empty, with an
\* empty polkachu_peer, when no response carried a live_peers list.
C24_FetchResult ==
    FetchReturned =>
        /\ NoDup(peers)
        /\ Len(peers) <= peer_amount
        /\ Range(peers) \subseteq delivered
        /\ ~live_seen => (peers = <<>> /\ polkachu_peer = <<>>)

\* more than peer_amount strings were accumulated and peer_amount returned
C24_Witness ==
    /\ pc = "filter"
    /\ Cardinality(delivered) > peer_amount
    /\ received > Cardinality(delivered)
    /\ Len(peers) = peer_amount

\* every fetch of the run failed and the empty result was returned
C24_WitnessNoData ==
    /\ pc = "filter"
    /\ fetches >= 2
    /\ ~live_seen
    /\ peers = <<>>

====
